---------------------------- MODULE Spec2Model ----------------------------
(***************************************************************************)
(* A model of the emotion classifier (utils/emotion_analyzer.py), of the   *)
(* mood log with its statistics (utils/mood_tracker.py), and of the page   *)
(* handler that feeds the one into the other (app.py).                     *)
(*                                                                         *)
(* Representation.  A text is a sequence of one-character strings, so that *)
(* Python's substring test `kw in text` is modelled character by           *)
(* character.  A real number x is the integer 1000 * x (thousandths); the  *)
(* analyzer's inputs are drawn so that every product the code forms is a   *)
(* whole number of thousandths.  The mood log's means and trend are        *)
(* computed in binary64, as np.mean and the float comparisons compute      *)
(* them.                                                                   *)
(***************************************************************************)
EXTENDS Integers, Sequences, FiniteSets, TLC

VARIABLES
  pc,               \* "ready": inputs chosen; "done": analyze_emotion returned; "idle"
  user_input,       \* the text passed to analyze_emotion
  estimator_output, \* what the two estimators return for that text
  emotion_result,   \* the dict analyze_emotion returned
  called,           \* the methods analyze_emotion called while it ran
  estimator,        \* a session's deterministic estimators: text -> their output
  analyses,         \* a session's calls of analyze_emotion so far, oldest first
  entries,          \* MoodTracker.entries
  now,              \* the reading of datetime.now()
  call,             \* the MoodTracker method that just returned, with its arguments
  ret,              \* what that call returned
  chat_history,     \* st.session_state.chat_history
  writer,           \* the frame of a thread that calls add_entry
  readers           \* the frames of the threads that call the queries

vars == <<pc, user_input, estimator_output, emotion_result, called, estimator,
          analyses, entries, now, call, ret, chat_history, writer, readers>>

thread_vars == <<writer, readers>>

analyzer_vars == <<pc, user_input, estimator_output, emotion_result, called,
                   estimator, analyses>>

tracker_vars == <<entries, now, call, ret>>

(***************************************************************************)
(* EmotionAnalyzer.__init__: the lexicon and the modifier table, in the    *)
(* enumeration order of the two dict literals.                             *)
(***************************************************************************)
emotion_keywords ==
  << [emotion |-> "joy", keywords |->
        << <<"h","a","p","p","y">>,
           <<"j","o","y","f","u","l">>,
           <<"e","x","c","i","t","e","d">>,
           <<"c","h","e","e","r","f","u","l">>,
           <<"d","e","l","i","g","h","t","e","d">>,
           <<"e","l","a","t","e","d">>,
           <<"t","h","r","i","l","l","e","d">>,
           <<"c","o","n","t","e","n","t">>,
           <<"p","l","e","a","s","e","d">>,
           <<"g","l","a","d">> >>],
     [emotion |-> "sadness", keywords |->
        << <<"s","a","d">>,
           <<"d","e","p","r","e","s","s","e","d">>,
           <<"m","e","l","a","n","c","h","o","l","y">>,
           <<"g","l","o","o","m","y">>,
           <<"d","e","j","e","c","t","e","d">>,
           <<"d","o","w","n","h","e","a","r","t","e","d">>,
           <<"s","o","r","r","o","w","f","u","l">>,
           <<"u","n","h","a","p","p","y">>,
           <<"b","l","u","e">>,
           <<"d","o","w","n">> >>],
     [emotion |-> "anger", keywords |->
        << <<"a","n","g","r","y">>,
           <<"f","u","r","i","o","u","s">>,
           <<"m","a","d">>,
           <<"i","r","r","i","t","a","t","e","d">>,
           <<"a","n","n","o","y","e","d">>,
           <<"r","a","g","e">>,
           <<"o","u","t","r","a","g","e","d">>,
           <<"l","i","v","i","d">>,
           <<"f","r","u","s","t","r","a","t","e","d">>,
           <<"p","i","s","s","e","d">> >>],
     [emotion |-> "fear", keywords |->
        << <<"a","f","r","a","i","d">>,
           <<"s","c","a","r","e","d">>,
           <<"f","r","i","g","h","t","e","n","e","d">>,
           <<"t","e","r","r","i","f","i","e","d">>,
           <<"a","n","x","i","o","u","s">>,
           <<"w","o","r","r","i","e","d">>,
           <<"n","e","r","v","o","u","s">>,
           <<"p","a","n","i","c","k","e","d">>,
           <<"f","e","a","r","f","u","l">>,
           <<"a","p","p","r","e","h","e","n","s","i","v","e">> >>],
     [emotion |-> "surprise", keywords |->
        << <<"s","u","r","p","r","i","s","e","d">>,
           <<"s","h","o","c","k","e","d">>,
           <<"a","m","a","z","e","d">>,
           <<"a","s","t","o","n","i","s","h","e","d">>,
           <<"s","t","u","n","n","e","d">>,
           <<"b","e","w","i","l","d","e","r","e","d">>,
           <<"s","t","a","r","t","l","e","d">>,
           <<"a","s","t","o","u","n","d","e","d">> >>],
     [emotion |-> "disgust", keywords |->
        << <<"d","i","s","g","u","s","t","e","d">>,
           <<"r","e","v","o","l","t","e","d">>,
           <<"r","e","p","u","l","s","e","d">>,
           <<"n","a","u","s","e","a","t","e","d">>,
           <<"s","i","c","k","e","n","e","d">>,
           <<"a","p","p","a","l","l","e","d">>,
           <<"r","e","p","e","l","l","e","d">> >>],
     [emotion |-> "anticipation", keywords |->
        << <<"e","x","c","i","t","e","d">>,
           <<"e","a","g","e","r">>,
           <<"h","o","p","e","f","u","l">>,
           <<"e","x","p","e","c","t","a","n","t">>,
           <<"a","n","t","i","c","i","p","a","t","i","n","g">>,
           <<"l","o","o","k","i","n","g"," ","f","o","r","w","a","r","d">>,
           <<"o","p","t","i","m","i","s","t","i","c">> >>],
     [emotion |-> "trust", keywords |->
        << <<"c","o","n","f","i","d","e","n","t">>,
           <<"s","e","c","u","r","e">>,
           <<"t","r","u","s","t","i","n","g">>,
           <<"f","a","i","t","h","f","u","l">>,
           <<"a","s","s","u","r","e","d">>,
           <<"c","e","r","t","a","i","n">>,
           <<"b","e","l","i","e","v","i","n","g">> >>],
     [emotion |-> "love", keywords |->
        << <<"l","o","v","e">>,
           <<"a","d","o","r","e">>,
           <<"c","h","e","r","i","s","h">>,
           <<"a","f","f","e","c","t","i","o","n","a","t","e">>,
           <<"d","e","v","o","t","e","d">>,
           <<"c","a","r","i","n","g">>,
           <<"t","e","n","d","e","r">>,
           <<"r","o","m","a","n","t","i","c">> >>],
     [emotion |-> "anxiety", keywords |->
        << <<"a","n","x","i","o","u","s">>,
           <<"s","t","r","e","s","s","e","d">>,
           <<"o","v","e","r","w","h","e","l","m","e","d">>,
           <<"t","e","n","s","e">>,
           <<"u","n","e","a","s","y">>,
           <<"r","e","s","t","l","e","s","s">>,
           <<"a","g","i","t","a","t","e","d">>,
           <<"t","r","o","u","b","l","e","d">> >>] >>

intensity_modifiers ==
  << [modifier |-> <<"v","e","r","y">>, multiplier |-> 1500],
     [modifier |-> <<"e","x","t","r","e","m","e","l","y">>, multiplier |-> 2000],
     [modifier |-> <<"r","e","a","l","l","y">>, multiplier |-> 1300],
     [modifier |-> <<"q","u","i","t","e">>, multiplier |-> 1200],
     [modifier |-> <<"s","o","m","e","w","h","a","t">>, multiplier |-> 800],
     [modifier |-> <<"s","l","i","g","h","t","l","y">>, multiplier |-> 600],
     [modifier |-> <<"a"," ","b","i","t">>, multiplier |-> 700],
     [modifier |-> <<"i","n","c","r","e","d","i","b","l","y">>, multiplier |-> 1800],
     [modifier |-> <<"t","o","t","a","l","l","y">>, multiplier |-> 1600],
     [modifier |-> <<"c","o","m","p","l","e","t","e","l","y">>, multiplier |-> 1700] >>

(***************************************************************************)
(* Strings.                                                                *)
(***************************************************************************)
Whitespace == {" ", "\t", "\n", "\r", "\f"}

UpperToLower ==
  [c \in {"A","B","C","D","E","F","G","H","I","J","K","L","M",
          "N","O","P","Q","R","S","T","U","V","W","X","Y","Z"} |->
     CASE c = "A" -> "a" [] c = "B" -> "b" [] c = "C" -> "c" [] c = "D" -> "d"
       [] c = "E" -> "e" [] c = "F" -> "f" [] c = "G" -> "g" [] c = "H" -> "h"
       [] c = "I" -> "i" [] c = "J" -> "j" [] c = "K" -> "k" [] c = "L" -> "l"
       [] c = "M" -> "m" [] c = "N" -> "n" [] c = "O" -> "o" [] c = "P" -> "p"
       [] c = "Q" -> "q" [] c = "R" -> "r" [] c = "S" -> "s" [] c = "T" -> "t"
       [] c = "U" -> "u" [] c = "V" -> "v" [] c = "W" -> "w" [] c = "X" -> "x"
       [] c = "Y" -> "y" [] c = "Z" -> "z"]

\* str.lower()
lower(text) ==
  [i \in 1..Len(text) |->
     IF text[i] \in DOMAIN UpperToLower THEN UpperToLower[text[i]] ELSE text[i]]

\* str.strip(): the text without its leading and trailing whitespace
strip(text) ==
  LET inner == {i \in 1..Len(text) : text[i] \notin Whitespace}
  IN  IF inner = {} THEN <<>>
      ELSE LET first == CHOOSE i \in inner : \A j \in inner : i <= j
               last  == CHOOSE i \in inner : \A j \in inner : j <= i
           IN  SubSeq(text, first, last)

\* re.sub(r'\s+', ' ', text): every maximal run of whitespace becomes one space
RECURSIVE CollapseWhitespace(_)
CollapseWhitespace(text) ==
  IF text = <<>> THEN <<>>
  ELSE IF Head(text) \in Whitespace
       THEN IF Len(text) >= 2 /\ text[2] \in Whitespace
            THEN CollapseWhitespace(Tail(text))
            ELSE <<" ">> \o CollapseWhitespace(Tail(text))
       ELSE <<Head(text)>> \o CollapseWhitespace(Tail(text))

\* EmotionAnalyzer.preprocess_text
preprocess_text(text) == strip(CollapseWhitespace(lower(text)))

\* Python's `needle in text` on strings
Contains(text, needle) ==
  \E i \in 1..(Len(text) - Len(needle) + 1) :
     \A j \in 1..Len(needle) : text[i + j - 1] = needle[j]

(***************************************************************************)
(* EmotionAnalyzer.                                                        *)
(***************************************************************************)
EmotionOrder == [i \in 1..Len(emotion_keywords) |-> emotion_keywords[i].emotion]

KeywordEmotions == {EmotionOrder[i] : i \in 1..Len(EmotionOrder)}

Min(a, b) == IF a <= b THEN a ELSE b
Max(a, b) == IF a >= b THEN a ELSE b
Abs(a) == IF a < 0 THEN -a ELSE a

\* dict.get(key, 0)
Get(dict, key) == IF key \in DOMAIN dict THEN dict[key] ELSE 0

RECURSIVE SumSeq(_)
SumSeq(s) == IF s = <<>> THEN 0 ELSE Head(s) + SumSeq(Tail(s))

\* Mutant: the modifier is looked for anywhere in the text, not in front of
\* the keyword.
FirstModifier_Anywhere(text, keyword) ==
  LET hits == {m \in 1..Len(intensity_modifiers) :
                 Contains(text, intensity_modifiers[m].modifier)}
  IN  IF hits = {} THEN 0 ELSE CHOOSE m \in hits : \A n \in hits : m <= n

\* The inner `for modifier, multiplier in ...` loop with its break: the first
\* modifier, in table order, whose "<modifier> <keyword>" occurs in the text.
FirstModifier(text, keyword) ==
  LET hits == {m \in 1..Len(intensity_modifiers) :
                 Contains(text, intensity_modifiers[m].modifier \o <<" ">> \o keyword)}
  IN  IF hits = {} THEN 0 ELSE CHOOSE m \in hits : \A n \in hits : m <= n

\* Mutant: the inner loop has no break; the multipliers of all the modifiers
\* found in front of the keyword are multiplied together.
RECURSIVE StackedMultipliers(_, _, _)
StackedMultipliers(text, keyword, m) ==
  IF m > Len(intensity_modifiers) THEN 1000
  ELSE LET rest == StackedMultipliers(text, keyword, m + 1)
       IN  IF Contains(text, intensity_modifiers[m].modifier \o <<" ">> \o keyword)
           THEN (intensity_modifiers[m].multiplier * rest) \div 1000
           ELSE rest

KeywordContribution_Stacking(text, keyword) ==
  IF Contains(text, keyword) THEN StackedMultipliers(text, keyword, 1) ELSE 0

\* Mutant: the modifier check is left out; every matched keyword adds 1.
KeywordContribution_Unmodified(text, keyword) ==
  IF Contains(text, keyword) THEN 1000 ELSE 0

\* One turn of the `for keyword in keywords` loop: what the keyword adds.
KeywordContribution(text, keyword) ==
  IF Contains(text, keyword)
  THEN LET base_score == 1000
           m == FirstModifier(text, keyword)
       IN  IF m = 0 THEN base_score
           ELSE (base_score * intensity_modifiers[m].multiplier) \div 1000
  ELSE 0

\* Mutant: the score dict lives on the instance and is not reset, so a call
\* adds to the scores of the call before it.
detect_emotion_keywords_Accumulating(raw) ==
  LET text == preprocess_text(raw)
      score(i) ==
        SumSeq([k \in 1..Len(emotion_keywords[i].keywords) |->
                  IF Contains(text, emotion_keywords[i].keywords[k]) THEN 1000 ELSE 0])
      earlier(e) ==
        IF "emotion_scores" \in DOMAIN emotion_result
        THEN Get(emotion_result.emotion_scores, e)
        ELSE 0
  IN  [e \in KeywordEmotions |->
         earlier(e) + score(CHOOSE i \in 1..Len(EmotionOrder) : EmotionOrder[i] = e)]

\* EmotionAnalyzer.detect_emotion_keywords
detect_emotion_keywords(raw) ==
  LET text == preprocess_text(raw)
      score(i) ==
        SumSeq([k \in 1..Len(emotion_keywords[i].keywords) |->
                  KeywordContribution(text, emotion_keywords[i].keywords[k])])
  IN  [e \in KeywordEmotions |->
         score(CHOOSE i \in 1..Len(EmotionOrder) : EmotionOrder[i] = e)]

\* EmotionAnalyzer.analyze_sentiment: the two estimators are libraries; what
\* they return for the text is the input `estimate`.
analyze_sentiment(estimate) ==
  [textblob_polarity     |-> estimate.polarity,
   textblob_subjectivity |-> estimate.subjectivity,
   vader_scores          |-> estimate.vader,
   combined_sentiment    |-> (estimate.polarity + estimate.vader.compound) \div 2]

\* Mutant: a sentiment within [-0.1, 0.1] with a high neutral share is
\* labelled neutral.
classify_emotion_from_sentiment_Neutral(sentiment_data) ==
  LET sentiment_score == sentiment_data.combined_sentiment
      vader_scores    == sentiment_data.vader_scores
  IN  IF sentiment_score > 500 THEN "joy"
      ELSE IF sentiment_score < -500 THEN "sadness"
      ELSE IF sentiment_score > 100 THEN "anticipation"
      ELSE IF sentiment_score < -100
           THEN IF vader_scores.neg > 300
                THEN (IF vader_scores.compound < -300 THEN "anger" ELSE "fear")
                ELSE "sadness"
      ELSE IF vader_scores.neu > 700 THEN "neutral" ELSE "anticipation"

\* Mutant: the first rung of the ladder takes its boundary, >= 0.5.
classify_emotion_from_sentiment_Inclusive(sentiment_data) ==
  LET sentiment_score == sentiment_data.combined_sentiment
      vader_scores    == sentiment_data.vader_scores
  IN  IF sentiment_score >= 500 THEN "joy"
      ELSE IF sentiment_score < -500 THEN "sadness"
      ELSE IF sentiment_score > 100 THEN "anticipation"
      ELSE IF sentiment_score < -100
           THEN IF vader_scores.neg > 300
                THEN (IF vader_scores.compound < -300 THEN "anger" ELSE "fear")
                ELSE "sadness"
      ELSE IF vader_scores.neu > 700 THEN "trust" ELSE "anticipation"

\* EmotionAnalyzer.classify_emotion_from_sentiment
classify_emotion_from_sentiment(sentiment_data) ==
  LET sentiment_score == sentiment_data.combined_sentiment
      vader_scores    == sentiment_data.vader_scores
  IN  IF sentiment_score > 500 THEN "joy"
      ELSE IF sentiment_score < -500 THEN "sadness"
      ELSE IF sentiment_score > 100 THEN "anticipation"
      ELSE IF sentiment_score < -100
           THEN IF vader_scores.neg > 300
                THEN (IF vader_scores.compound < -300 THEN "anger" ELSE "fear")
                ELSE "sadness"
      ELSE IF vader_scores.neu > 700 THEN "trust" ELSE "anticipation"

\* Mutant: the keyword term is not capped at 0.3.
calculate_confidence_UncappedKeywords(emotion_scores, primary_emotion, sentiment_data) ==
  Min(Max(400 + (Get(emotion_scores, primary_emotion) * 2) \div 10
              + (Abs(sentiment_data.combined_sentiment) * 2) \div 10
              + sentiment_data.textblob_subjectivity \div 10, 300), 950)

\* Mutant: the sum is returned without the final clamp.
calculate_confidence_Unclamped(emotion_scores, primary_emotion, sentiment_data) ==
  400 + Min((Get(emotion_scores, primary_emotion) * 2) \div 10, 300)
      + (Abs(sentiment_data.combined_sentiment) * 2) \div 10
      + sentiment_data.textblob_subjectivity \div 10

\* EmotionAnalyzer.calculate_confidence
calculate_confidence(emotion_scores, primary_emotion, sentiment_data) ==
  LET keyword_score == Get(emotion_scores, primary_emotion)
      sentiment_confidence == Abs(sentiment_data.combined_sentiment)
      subjectivity == sentiment_data.textblob_subjectivity
      base_confidence == 400
      keyword_confidence == Min((keyword_score * 2) \div 10, 300)
      sentiment_confidence_contrib == (sentiment_confidence * 2) \div 10
      subjectivity_contrib == subjectivity \div 10
      total_confidence == base_confidence + keyword_confidence
                          + sentiment_confidence_contrib + subjectivity_contrib
  IN  Min(Max(total_confidence, 300), 950)

\* max(emotion_scores.values())
MaxScore(emotion_scores) ==
  CHOOSE s \in {emotion_scores[e] : e \in DOMAIN emotion_scores} :
     \A e \in DOMAIN emotion_scores : emotion_scores[e] <= s

\* Mutant: of several maximal items the last one is kept.
MaxKey_Last(emotion_scores) ==
  LET best == MaxScore(emotion_scores)
      i == CHOOSE i \in 1..Len(EmotionOrder) :
             /\ emotion_scores[EmotionOrder[i]] = best
             /\ \A j \in (i + 1)..Len(EmotionOrder) :
                   emotion_scores[EmotionOrder[j]] # best
  IN  EmotionOrder[i]

\* max(emotion_scores.items(), key=lambda x: x[1])[0]: Python's max keeps the
\* first of several maximal items, and the dict iterates in lexicon order.
MaxKey(emotion_scores) ==
  LET best == MaxScore(emotion_scores)
      i == CHOOSE i \in 1..Len(EmotionOrder) :
             /\ emotion_scores[EmotionOrder[i]] = best
             /\ \A j \in 1..(i - 1) : emotion_scores[EmotionOrder[j]] # best
  IN  EmotionOrder[i]

\* Mutant: only the empty string counts as blank.
IsBlank_EmptyOnly(text) == text = <<>>

\* `not text or not text.strip()`
IsBlank(text) == text = <<>> \/ strip(text) = <<>>

NoScores == [e \in {} |-> 0]

\* The dict analyze_emotion returns on blank input.
NeutralResult ==
  [primary_emotion |-> "neutral",
   confidence      |-> 500,
   sentiment_score |-> 0,
   emotion_scores  |-> NoScores,
   sentiment_data  |-> NoScores]

\* if emotion_scores and max(emotion_scores.values()) > 0: ... else: ...
primary_emotion_of(emotion_scores, sentiment_data) ==
  IF DOMAIN emotion_scores # {} /\ MaxScore(emotion_scores) > 0
  THEN MaxKey(emotion_scores)
  ELSE classify_emotion_from_sentiment(sentiment_data)

\* EmotionAnalyzer.analyze_emotion; `estimate` is what the estimators return
\* for the text.
analyze_emotion(text, estimate) ==
  IF IsBlank(text) THEN NeutralResult
  ELSE LET sentiment_data  == analyze_sentiment(estimate)
           emotion_scores  == detect_emotion_keywords(text)
           primary_emotion == primary_emotion_of(emotion_scores, sentiment_data)
       IN  [primary_emotion |-> primary_emotion,
            confidence      |-> calculate_confidence(emotion_scores, primary_emotion,
                                                     sentiment_data),
            sentiment_score |-> sentiment_data.combined_sentiment,
            emotion_scores  |-> emotion_scores,
            sentiment_data  |-> sentiment_data]

\* The methods analyze_emotion calls, directly, while it handles the text.
methods_called(text) ==
  IF IsBlank(text) THEN {}
  ELSE LET emotion_scores == detect_emotion_keywords(text)
       IN  {"analyze_sentiment", "detect_emotion_keywords", "calculate_confidence"}
           \cup (IF DOMAIN emotion_scores # {} /\ MaxScore(emotion_scores) > 0
                 THEN {}
                 ELSE {"classify_emotion_from_sentiment"})

(***************************************************************************)
(* MoodTracker.  A timestamp is a whole number of hours since a midnight;  *)
(* a dict is the sequence of its items in insertion order; confidence and  *)
(* sentiment_score are given in thousandths and averaged as floats.        *)
(***************************************************************************)
HoursPerDay == 24

\* timedelta(days=days_back)
timedelta(days_back) == days_back * HoursPerDay

\* The entry add_entry builds.
NewEntry(clock, txt, emotion, confidence, sentiment_score) ==
  [timestamp       |-> clock,
   text            |-> txt,
   emotion         |-> emotion,
   confidence      |-> confidence,
   sentiment_score |-> sentiment_score]

\* Mutant: the new entry is put in front (insert(0, entry)).
add_entry_AtFront(log, clock, txt, emotion, confidence, sentiment_score) ==
  <<NewEntry(clock, txt, emotion, confidence, sentiment_score)>> \o log

\* MoodTracker.add_entry: self.entries after the call.
add_entry(log, clock, txt, emotion, confidence, sentiment_score) ==
  Append(log, NewEntry(clock, txt, emotion, confidence, sentiment_score))

\* [entry for entry in log if keep(entry)]
RECURSIVE SelectFrom(_, _)
SelectFrom(log, cutoff_date) ==
  IF log = <<>> THEN <<>>
  ELSE IF Head(log).timestamp >= cutoff_date
       THEN <<Head(log)>> \o SelectFrom(Tail(log), cutoff_date)
       ELSE SelectFrom(Tail(log), cutoff_date)

\* Mutant: the selected entries are returned newest first.
get_entries_by_date_range_NewestFirst(log, clock, days_back) ==
  LET selected == SelectFrom(log, clock - timedelta(days_back))
  IN  [i \in 1..Len(selected) |-> selected[Len(selected) + 1 - i]]

\* Mutant: the comparison is strict, timestamp > cutoff_date.
get_entries_by_date_range_Strict(log, clock, days_back) ==
  LET cutoff_date == clock - timedelta(days_back)
  IN  SelectFrom(log, cutoff_date + 1)

\* MoodTracker.get_entries_by_date_range
get_entries_by_date_range(log, clock, days_back) ==
  LET cutoff_date == clock - timedelta(days_back)
  IN  SelectFrom(log, cutoff_date)

\* Mutant: a key that is already there is set to 1 again, counts[key] = 1.
Increment_Overwrite(counts, key) ==
  IF \E i \in 1..Len(counts) : counts[i].key = key
  THEN [i \in 1..Len(counts) |->
          IF counts[i].key = key THEN [key |-> key, count |-> 1] ELSE counts[i]]
  ELSE Append(counts, [key |-> key, count |-> 1])

\* counts[key] = counts.get(key, 0) + 1
Increment(counts, key) ==
  IF \E i \in 1..Len(counts) : counts[i].key = key
  THEN [i \in 1..Len(counts) |->
          IF counts[i].key = key
          THEN [key |-> key, count |-> counts[i].count + 1]
          ELSE counts[i]]
  ELSE Append(counts, [key |-> key, count |-> 1])

\* counts = {}; for key in keys: counts[key] = counts.get(key, 0) + 1
RECURSIVE TallyInto(_, _)
TallyInto(counts, keys) ==
  IF keys = <<>> THEN counts
  ELSE TallyInto(Increment(counts, Head(keys)), Tail(keys))

Tally(keys) == TallyInto(<<>>, keys)

\* Mutant: of the items of maximal count the last one wins.
MostCommon_Last(counts) ==
  LET i == CHOOSE i \in 1..Len(counts) :
             /\ \A j \in 1..Len(counts) : counts[j].count <= counts[i].count
             /\ \A j \in (i + 1)..Len(counts) : counts[j].count < counts[i].count
  IN  counts[i].key

\* max(counts.items(), key=lambda x: x[1])[0]: the first item of maximal count
MostCommon(counts) ==
  LET i == CHOOSE i \in 1..Len(counts) :
             /\ \A j \in 1..Len(counts) : counts[j].count <= counts[i].count
             /\ \A j \in 1..(i - 1) : counts[j].count < counts[i].count
  IN  counts[i].key

\* entry['timestamp'].strftime('%Y-%m-%d'): the day the timestamp falls on
date_key(timestamp) == timestamp \div HoursPerDay

(***************************************************************************)
(* Python floats (IEEE 754 binary64, round to nearest, ties to even).      *)
(* A float x near the decimal num/den is the record [num, den, off] with   *)
(*   x = num/den + off / (den * 2^OffsetBits),                             *)
(* so the decimal part stays exact and off carries the rounding so far.    *)
(* A result whose decimal part is 0 and whose off is not is below 2^-50    *)
(* and is kept as it is.                                                   *)
(***************************************************************************)
OffsetBits == 64

MantissaBits == 52

RECURSIVE Pow2(_)
Pow2(n) == IF n = 0 THEN 1 ELSE 2 * Pow2(n - 1)

\* 2^k modulo m, eight bits at a time
RECURSIVE Pow2Mod(_, _)
Pow2Mod(k, m) ==
  IF k <= 8 THEN Pow2(k) % m ELSE (Pow2(8) * Pow2Mod(k - 8, m)) % m

RECURSIVE GCD(_, _)
GCD(a, b) == IF b = 0 THEN a ELSE GCD(b, a % b)

LCM(a, b) == (a * b) \div GCD(a, b)

\* In the operators below an operand is bound to a name by `x \in {operand}`,
\* which has it computed once however often the body reads it.
float_neg(operand) ==
  CHOOSE r \in {[num |-> 0 - x.num, den |-> x.den, off |-> 0 - x.off]
                  : x \in {operand}} : TRUE

float_negative(x) == x.num < 0 \/ (x.num = 0 /\ x.off < 0)

\* 2^m <= x, for x >= 0
AtLeastPow2(x, m) ==
  IF m >= 0
  THEN \E p \in {x.den * Pow2(m)} :
          x.num > p \/ (x.num = p /\ x.off >= 0)
  ELSE \E q \in {x.num * Pow2(0 - m)} :
          q > x.den \/ (q = x.den /\ x.off >= 0)

\* The binary exponent of x > 0: the largest m <= top with 2^m <= x.
RECURSIVE ExponentFrom(_, _)
ExponentFrom(x, top) ==
  IF AtLeastPow2(x, top) THEN top ELSE ExponentFrom(x, top - 1)

\* x >= 0 rounded to k binary places, ties to the even mantissa.
RoundTo(x, k) ==
  IF k > OffsetBits THEN x
  ELSE LET ulp  == x.den * Pow2(OffsetBits - k)
           q    == ((x.num % x.den) * Pow2Mod(k, x.den)) % x.den
           t    == ((x.num % (2 * x.den)) * Pow2Mod(k, 2 * x.den))
                      % (2 * x.den)
           w    == q * Pow2(OffsetBits - k) + x.off
           odd  == ((IF t >= x.den THEN 1 ELSE 0) + (w \div ulp)) % 2 = 1
       IN  CHOOSE y \in
             {[num |-> x.num, den |-> x.den,
               off |-> IF 2 * r > ulp \/ (2 * r = ulp /\ odd)
                       THEN x.off + (ulp - r) ELSE x.off - r]
                : r \in {w % ulp}} : TRUE

\* The nearest binary64 to the real number x >= 0, ties to the even mantissa.
RoundMagnitude(operand) ==
  CHOOSE r \in
    {IF x.num = 0 THEN x
     ELSE CHOOSE y \in {RoundTo(x, k) : k \in {MantissaBits - ExponentFrom(x, 3)}}
            : TRUE
       : x \in {operand}} : TRUE

float_round(operand) ==
  CHOOSE r \in
    {IF float_negative(x) THEN float_neg(RoundMagnitude(float_neg(x)))
     ELSE RoundMagnitude(x)
       : x \in {operand}} : TRUE

\* The float a decimal number of thousandths denotes.
float(thousandths) == float_round([num |-> thousandths, den |-> 1000, off |-> 0])

\* x + y
float_add(left, right) ==
  CHOOSE r \in
    {LET den == LCM(x.den, y.den)
         a   == den \div x.den
         b   == den \div y.den
     IN  float_round([num |-> a * x.num + b * y.num, den |-> den,
                      off |-> a * x.off + b * y.off])
       : x \in {left}, y \in {right}} : TRUE

\* x - y
float_sub(x, y) == float_add(x, float_neg(y))

\* x / n for a positive integer n
float_div(operand, n) ==
  CHOOSE r \in
    {float_round([num |-> x.num, den |-> x.den * n, off |-> x.off])
       : x \in {operand}} : TRUE

\* x > y
float_gt(left, right) ==
  \E x \in {left}, y \in {right} :
     LET den == LCM(x.den, y.den)
         a   == den \div x.den
         b   == den \div y.den
     IN  \/ a * x.num > b * y.num
         \/ a * x.num = b * y.num /\ a * x.off > b * y.off

\* sum of a list of floats, left to right
RECURSIVE float_sum(_, _)
float_sum(start, values) ==
  CHOOSE r \in
    {IF values = <<>> THEN acc
     ELSE float_sum(float_add(acc, float(Head(values))), Tail(values))
       : acc \in {start}} : TRUE

\* np.mean of a non-empty list of floats, given in thousandths
Mean(values) == float_div(float_sum(float(0), values), Len(values))

\* a > b + 0.1 for two floats a and b
ExceedsByTenth(a, b) == float_gt(a, float_add(b, float(100)))

\* a < b - 0.1 for two floats a and b
BelowByTenth(a, b) == float_gt(float_sub(b, float(100)), a)

\* Mutant: the trend needs more than four entries, len(entries) > 4.
trend_of_MoreThanFour(window) ==
  IF Len(window) > 4
  THEN LET mid_point == Len(window) \div 2
           first_half_sentiment ==
             Mean([i \in 1..mid_point |-> window[i].sentiment_score])
           second_half_sentiment ==
             Mean([i \in 1..(Len(window) - mid_point) |->
                     window[mid_point + i].sentiment_score])
       IN  IF ExceedsByTenth(second_half_sentiment, first_half_sentiment)
           THEN "improving"
           ELSE IF BelowByTenth(second_half_sentiment, first_half_sentiment)
                THEN "declining"
                ELSE "stable"
  ELSE "insufficient data"

\* The `if len(entries) >= 4: ... else: ...` block of get_statistics.
trend_of(window) ==
  IF Len(window) >= 4
  THEN LET mid_point == Len(window) \div 2
           first_half_sentiment ==
             Mean([i \in 1..mid_point |-> window[i].sentiment_score])
           second_half_sentiment ==
             Mean([i \in 1..(Len(window) - mid_point) |->
                     window[mid_point + i].sentiment_score])
       IN  IF ExceedsByTenth(second_half_sentiment, first_half_sentiment)
           THEN "improving"
           ELSE IF BelowByTenth(second_half_sentiment, first_half_sentiment)
                THEN "declining"
                ELSE "stable"
  ELSE "insufficient data"

\* The dict get_statistics returns when the window is empty.
EmptyStatistics ==
  [total_entries       |-> 0,
   most_common_emotion |-> "none",
   avg_confidence      |-> 0,
   avg_sentiment       |-> 0,
   emotion_distribution |-> <<>>,
   daily_counts        |-> <<>>,
   trend               |-> "no data"]

\* MoodTracker.get_statistics
get_statistics(log, clock, days_back) ==
  LET window == get_entries_by_date_range(log, clock, days_back)
  IN  IF window = <<>> THEN EmptyStatistics
      ELSE LET emotions    == [i \in 1..Len(window) |-> window[i].emotion]
               confidences == [i \in 1..Len(window) |-> window[i].confidence]
               sentiments  == [i \in 1..Len(window) |-> window[i].sentiment_score]
               emotion_counts == Tally(emotions)
               daily_counts ==
                 Tally([i \in 1..Len(window) |-> date_key(window[i].timestamp)])
           IN  [total_entries       |-> Len(window),
                most_common_emotion |-> MostCommon(emotion_counts),
                avg_confidence      |-> Mean(confidences),
                avg_sentiment       |-> Mean(sentiments),
                emotion_distribution |-> emotion_counts,
                daily_counts        |-> daily_counts,
                trend               |-> trend_of(window)]

\* entry['timestamp'].strftime('%A'); hour 0 is the midnight that starts a Monday
DayNames ==
  <<"Monday", "Tuesday", "Wednesday", "Thursday", "Friday", "Saturday", "Sunday">>

day_name(timestamp) ==
  DayNames[((timestamp \div HoursPerDay) % Len(DayNames)) + 1]

\* entry['timestamp'].hour
hour(timestamp) == timestamp % HoursPerDay

\* Mutant: noon still counts as morning, 5 <= hour <= 12.
time_period_NoonIsMorning(h) ==
  IF 5 <= h /\ h <= 12 THEN "morning"
  ELSE IF 12 <= h /\ h < 17 THEN "afternoon"
  ELSE IF 17 <= h /\ h < 22 THEN "evening"
  ELSE "night"

\* The if/elif chain of get_emotion_patterns over the hour.
time_period(h) ==
  IF 5 <= h /\ h < 12 THEN "morning"
  ELSE IF 12 <= h /\ h < 17 THEN "afternoon"
  ELSE IF 17 <= h /\ h < 22 THEN "evening"
  ELSE "night"

\* The keys of time_patterns, in the order of the dict literal.
TimePeriods == <<"morning", "afternoon", "evening", "night">>

\* day_patterns[day]: the emotions of the window's entries of that weekday
EmotionsOn(window, day) ==
  LET on == SelectSeq(window, LAMBDA e : day_name(e.timestamp) = day)
  IN  [i \in 1..Len(on) |-> on[i].emotion]

\* time_patterns[period]: the emotions of the window's entries of that period
EmotionsIn(window, period) ==
  LET in == SelectSeq(window, LAMBDA e : time_period(hour(e.timestamp)) = period)
  IN  [i \in 1..Len(in) |-> in[i].emotion]

\* Mutant: the weekdays are kept in the order of the week, Monday first.
day_emotions_WeekOrder(window) ==
  LET days == SelectSeq(DayNames, LAMBDA d : EmotionsOn(window, d) # <<>>)
  IN  [d \in 1..Len(days) |->
         [key   |-> days[d],
          value |-> MostCommon(Tally(EmotionsOn(window, days[d])))]]

\* day_emotions: weekday -> its most common emotion, weekdays in the order
\* in which the window first shows them
day_emotions(window) ==
  LET days == Tally([i \in 1..Len(window) |-> day_name(window[i].timestamp)])
  IN  [d \in 1..Len(days) |->
         [key   |-> days[d].key,
          value |-> MostCommon(Tally(EmotionsOn(window, days[d].key)))]]

\* time_emotions: period -> its most common emotion, for the periods that
\* have an entry
time_emotions(window) ==
  LET periods == SelectSeq(TimePeriods,
                           LAMBDA p : EmotionsIn(window, p) # <<>>)
  IN  [p \in 1..Len(periods) |->
         [key   |-> periods[p],
          value |-> MostCommon(Tally(EmotionsIn(window, periods[p])))]]

\* Mutant: the patterns are taken from the whole log.
get_emotion_patterns_WholeLog(log, clock, days_back) ==
  IF log = <<>> THEN <<>>
  ELSE [day_patterns  |-> day_emotions(log),
        time_patterns |-> time_emotions(log)]

\* MoodTracker.get_emotion_patterns; the empty dict is the empty function
get_emotion_patterns(log, clock, days_back) ==
  LET window == get_entries_by_date_range(log, clock, days_back)
  IN  IF window = <<>> THEN <<>>
      ELSE [day_patterns  |-> day_emotions(window),
            time_patterns |-> time_emotions(window)]

\* {'emotion': ..., 'count': 1, 'start_date': ...} for the entry
StreakOfOne(entry) ==
  [emotion |-> entry.emotion, count |-> 1, start_date |-> entry.timestamp]

\* The loop of get_recent_streaks from index i down, and the final append.
RECURSIVE StreaksFrom(_, _, _, _)
StreaksFrom(log, i, current_streak, streaks) ==
  IF i = 0
  THEN IF current_streak.count >= 2 THEN Append(streaks, current_streak)
       ELSE streaks
  ELSE IF log[i].emotion = current_streak.emotion
       THEN StreaksFrom(log, i - 1,
                        [emotion    |-> current_streak.emotion,
                         count      |-> current_streak.count + 1,
                         start_date |-> log[i].timestamp],
                        streaks)
       ELSE StreaksFrom(log, i - 1, StreakOfOne(log[i]),
                        IF current_streak.count >= 2
                        THEN Append(streaks, current_streak)
                        ELSE streaks)

\* Mutant: the streaks are returned oldest first.
get_recent_streaks_OldestFirst(log) ==
  IF Len(log) < 2 THEN <<>>
  ELSE LET streaks ==
             StreaksFrom(log, Len(log) - 1, StreakOfOne(log[Len(log)]), <<>>)
       IN  [k \in 1..Len(streaks) |-> streaks[Len(streaks) + 1 - k]]

\* MoodTracker.get_recent_streaks
get_recent_streaks(log) ==
  IF Len(log) < 2 THEN <<>>
  ELSE StreaksFrom(log, Len(log) - 1, StreakOfOne(log[Len(log)]), <<>>)

\* The columns of pd.DataFrame(self.entries), after the optional drop.
Columns(include_text) ==
  IF include_text
  THEN <<"timestamp", "text", "emotion", "confidence", "sentiment_score">>
  ELSE <<"timestamp", "emotion", "confidence", "sentiment_score">>

\* One row of the frame.
Row(entry, include_text) ==
  [c \in {Columns(include_text)[i] : i \in 1..Len(Columns(include_text))} |->
     entry[c]]

\* MoodTracker.export_data: what the call returns, or the exception it raises.
\* The exported string is kept as its format, columns and rows.
export_data(log, format, include_text) ==
  IF log = <<>> THEN [returned |-> <<>>]
  ELSE LET rows == [i \in 1..Len(log) |-> Row(log[i], include_text)]
       IN  IF lower(format) = <<"c","s","v">>
           THEN [returned |-> <<[format  |-> "csv",
                                 columns |-> Columns(include_text),
                                 rows    |-> rows]>>]
           ELSE IF lower(format) = <<"j","s","o","n">>
                THEN [returned |-> <<[format  |-> "json",
                                      columns |-> Columns(include_text),
                                      rows    |-> rows]>>]
                ELSE [raised |-> "ValueError"]

\* Mutant: a streak of two is already worth a sentence.
streak_insight_FromTwo(streaks) ==
  IF streaks # <<>> /\ streaks[1].count >= 2
  THEN <<[kind |-> "streak", count |-> streaks[1].count,
          emotion |-> streaks[1].emotion]>>
  ELSE <<>>

\* The `if streaks:` block of get_insights: the sentences it appends.
streak_insight(streaks) ==
  IF streaks # <<>> /\ streaks[1].count >= 3
  THEN <<[kind |-> "streak", count |-> streaks[1].count,
          emotion |-> streaks[1].emotion]>>
  ELSE <<>>

\* MoodTracker.get_insights; a sentence is kept as its kind and the values
\* the f-string puts in.
get_insights(log, clock, days_back) ==
  LET stats    == get_statistics(log, clock, days_back)
      patterns == get_emotion_patterns(log, clock, days_back)
      streaks  == get_recent_streaks(log)
      frequency ==
        IF stats.total_entries > 0
        THEN <<[kind |-> "logged", total_entries |-> stats.total_entries,
                days_back |-> days_back],
               [kind |-> "most common", emotion |-> stats.most_common_emotion]>>
        ELSE <<>>
      trend ==
        IF stats.trend \in {"improving", "declining", "stable"}
        THEN <<[kind |-> "trend", trend |-> stats.trend]>>
        ELSE <<>>
      days ==
        IF "day_patterns" \in DOMAIN patterns /\ patterns.day_patterns # <<>>
        THEN <<[kind |-> "days",
                days |-> [i \in 1..Len(patterns.day_patterns) |->
                            patterns.day_patterns[i].key]]>>
        ELSE <<>>
  IN  frequency \o trend \o days \o streak_insight(streaks)

(***************************************************************************)
(* The inputs: texts and estimator outputs.                                *)
(***************************************************************************)
MaxWords == 3

AllKeywords ==
  UNION {{emotion_keywords[i].keywords[k] : k \in 1..Len(emotion_keywords[i].keywords)}
           : i \in 1..Len(emotion_keywords)}

AllModifiers == {intensity_modifiers[m].modifier : m \in 1..Len(intensity_modifiers)}

\* "<modifier> <keyword>" for every modifier of the table and every keyword
ModifiedKeywordTexts == {m \o <<" ">> \o k : m \in AllModifiers, k \in AllKeywords}

BlankTexts == {<<>>, <<" ">>, <<" ", " ">>, <<"\t">>, <<"\n", " ", "\r">>}

Vocabulary ==
  {<<"h","a","p","p","y">>, <<"s","a","d">>, <<"e","x","c","i","t","e","d">>,
   <<"v","e","r","y">>, <<"s","l","i","g","h","t","l","y">>, <<"o","k">>}

\* Up to n words of the vocabulary, one space between two words.
RECURSIVE Phrases(_)
Phrases(n) ==
  IF n = 0 THEN {}
  ELSE Vocabulary \cup {p \o <<" ">> \o w : p \in Phrases(n - 1), w \in Vocabulary}

\* Upper case, runs of whitespace, embedded keywords, no keyword at all.
OtherTexts ==
  {<<" "," ","V","e","r","y"," ","\t"," ","H","A","P","P","Y","\n">>,
   <<"S","a","d","\n","s","a","d">>,
   <<"s","l","i","g","h","t","l","y"," ","s","a","d"," ",
     "v","e","r","y"," ","s","a","d">>,
   <<"a"," "," ","b","i","t"," ","m","a","d">>,
   <<"v","e","r","y","\t","g","l","a","d">>,
   <<"m","a","d","r","i","g","a","l">>,
   <<"i"," ","g","u","e","s","s">>,
   <<"o","k","a","y","!">>}

Texts == BlankTexts \cup AllKeywords \cup ModifiedKeywordTexts
         \cup Phrases(MaxWords) \cup OtherTexts

\* The texts every estimator output is tried on.
ProbeTexts ==
  BlankTexts \cup
  {<<"o","k">>, <<"i"," ","g","u","e","s","s">>, <<"o","k","a","y","!">>,
   <<"h","a","p","p","y">>, <<"v","e","r","y"," ","h","a","p","p","y">>,
   <<"s","l","i","g","h","t","l","y"," ","s","a","d">>,
   <<"e","x","c","i","t","e","d">>}

Polarities == {-1000, -500, -100, 0, 100, 500, 1000}
Compounds == Polarities \cup {-300}
Subjectivities == {0, 500, 1000}
VaderShares ==
  {[neg |-> 0,   neu |-> 1000, pos |-> 0],
   [neg |-> 0,   neu |-> 710,  pos |-> 290],
   [neg |-> 0,   neu |-> 700,  pos |-> 300],
   [neg |-> 300, neu |-> 700,  pos |-> 0],
   [neg |-> 310, neu |-> 690,  pos |-> 0],
   [neg |-> 310, neu |-> 400,  pos |-> 290]}

Estimate(p, s, c, shares) ==
  [polarity |-> p, subjectivity |-> s,
   vader |-> [neg |-> shares.neg, neu |-> shares.neu, pos |-> shares.pos,
              compound |-> c]]

Estimates ==
  {Estimate(p, s, c, v) : p \in Polarities, s \in Subjectivities,
                          c \in Compounds, v \in VaderShares}

\* The estimator outputs every text is tried on.
ProbeEstimates ==
  {Estimate(0, 0, 0, [neg |-> 0, neu |-> 1000, pos |-> 0]),
   Estimate(1000, 1000, 1000, [neg |-> 0, neu |-> 700, pos |-> 300]),
   Estimate(-500, 500, -300, [neg |-> 310, neu |-> 690, pos |-> 0])}


(***************************************************************************)
(* One call of analyze_emotion on every input.                             *)
(***************************************************************************)
NoResult == [primary_emotion |-> "none"]
NoCall == [op |-> "none"]

\* A frame of a thread that is in no call.
NoFrame == [pc |-> "idle"]

\* No chat yet, one thread.
SessionIdle ==
  /\ chat_history = <<>>
  /\ writer = NoFrame
  /\ readers = <<>>

TrackerIdle ==
  /\ entries = <<>>
  /\ now = 0
  /\ call = NoCall
  /\ ret = "None"

Init ==
  /\ pc = "ready"
  /\ \/ user_input \in Texts /\ estimator_output \in ProbeEstimates
     \/ user_input \in ProbeTexts /\ estimator_output \in Estimates
  /\ emotion_result = NoResult
  /\ called = {}
  /\ estimator = <<>>
  /\ analyses = <<>>
  /\ TrackerIdle
  /\ SessionIdle

\* emotion_analyzer.analyze_emotion(user_input)
AnalyzeEmotion ==
  /\ pc = "ready"
  /\ emotion_result' = analyze_emotion(user_input, estimator_output)
  /\ called' = methods_called(user_input)
  /\ pc' = "done"
  /\ UNCHANGED <<user_input, estimator_output, estimator, analyses>>
  /\ UNCHANGED <<tracker_vars, chat_history, thread_vars>>

Next == AnalyzeEmotion

Spec == Init /\ [][Next]_vars

(***************************************************************************)
(* A session: one analyzer, deterministic estimators, several calls.       *)
(***************************************************************************)
MaxCalls == 3

SessionTexts ==
  {<<>>, <<"o","k">>, <<"h","a","p","p","y">>,
   <<"v","e","r","y"," ","s","a","d">>}

InitSession ==
  /\ pc = "idle"
  /\ user_input = <<>>
  /\ estimator \in [SessionTexts -> ProbeEstimates]
  /\ estimator_output = estimator[<<>>]
  /\ emotion_result = NoResult
  /\ called = {}
  /\ analyses = <<>>
  /\ TrackerIdle
  /\ SessionIdle

\* The next call of analyze_emotion in the session, on the text t.
AnalyzeAgain(t) ==
  /\ Len(analyses) < MaxCalls
  /\ user_input' = t
  /\ estimator_output' = estimator[t]
  /\ emotion_result' = analyze_emotion(t, estimator[t])
  /\ called' = methods_called(t)
  /\ analyses' = Append(analyses,
                        [text            |-> t,
                         primary_emotion |-> emotion_result'.primary_emotion,
                         confidence      |-> emotion_result'.confidence])
  /\ pc' = "done"
  /\ UNCHANGED estimator
  /\ UNCHANGED <<tracker_vars, chat_history, thread_vars>>

NextSession == \E t \in SessionTexts : AnalyzeAgain(t)

SpecSession == InitSession /\ [][NextSession]_vars

(***************************************************************************)
(* The mood log: add_entry, the clock, and the queries.                    *)
(***************************************************************************)
MaxEntries == 4

\* The arguments add_entry is called with; the second is outside the
\* documented ranges of confidence and sentiment_score and has no text.
EntryArguments ==
  {[text |-> <<"o","k">>, emotion |-> "joy", confidence |-> 700,
    sentiment_score |-> 500],
   [text |-> <<>>, emotion |-> "sadness", confidence |-> 1500,
    sentiment_score |-> -2000]}

ClockReadings == {0, 24}

DaysBack == {-1, 0, 1, 2}

\* The format argument of export_data.
ExportFormats ==
  {<<"c","s","v">>, <<"J","s","o","n">>, <<"x","m","l">>, <<>>}

AnalyzerIdle ==
  /\ pc = "idle"
  /\ user_input = <<>>
  /\ estimator_output = <<>>
  /\ emotion_result = NoResult
  /\ called = {}
  /\ estimator = <<>>
  /\ analyses = <<>>

InitTracker ==
  /\ AnalyzerIdle
  /\ entries = <<>>
  /\ now \in ClockReadings
  /\ call = NoCall
  /\ ret = "None"
  /\ SessionIdle

\* mood_tracker.add_entry(text, emotion, confidence, sentiment_score)
AddEntry(a) ==
  /\ call = NoCall
  /\ Len(entries) < MaxEntries
  /\ entries' = add_entry(entries, now, a.text, a.emotion, a.confidence,
                          a.sentiment_score)
  /\ call' = [op |-> "add_entry", args |-> a]
  /\ ret' = "None"
  /\ UNCHANGED now
  /\ UNCHANGED <<analyzer_vars, chat_history, thread_vars>>

\* Between two calls the wall clock moves on, or is set back.
SetClock(t) ==
  /\ call = NoCall
  /\ t # now
  /\ now' = t
  /\ UNCHANGED <<entries, call, ret>>
  /\ UNCHANGED <<analyzer_vars, chat_history, thread_vars>>

\* mood_tracker.get_entries_by_date_range(days_back)
GetEntriesByDateRange(days_back) ==
  /\ call = NoCall
  /\ call' = [op |-> "get_entries_by_date_range", days_back |-> days_back]
  /\ ret' = get_entries_by_date_range(entries, now, days_back)
  /\ UNCHANGED <<entries, now>>
  /\ UNCHANGED <<analyzer_vars, chat_history, thread_vars>>

\* mood_tracker.get_statistics(days_back)
GetStatistics(days_back) ==
  /\ call = NoCall
  /\ call' = [op |-> "get_statistics", days_back |-> days_back]
  /\ ret' = get_statistics(entries, now, days_back)
  /\ UNCHANGED <<entries, now>>
  /\ UNCHANGED <<analyzer_vars, chat_history, thread_vars>>

\* mood_tracker.get_emotion_patterns(days_back)
GetEmotionPatterns(days_back) ==
  /\ call = NoCall
  /\ call' = [op |-> "get_emotion_patterns", days_back |-> days_back]
  /\ ret' = get_emotion_patterns(entries, now, days_back)
  /\ UNCHANGED <<entries, now>>
  /\ UNCHANGED <<analyzer_vars, chat_history, thread_vars>>

\* Mutant: get_recent_streaks takes the entries off the log as it scans them
\* (self.entries.pop()).
GetRecentStreaks_Popping ==
  /\ call = NoCall
  /\ call' = [op |-> "get_recent_streaks"]
  /\ ret' = get_recent_streaks(entries)
  /\ entries' = <<>>
  /\ UNCHANGED now
  /\ UNCHANGED <<analyzer_vars, chat_history, thread_vars>>

\* mood_tracker.get_recent_streaks()
GetRecentStreaks ==
  /\ call = NoCall
  /\ call' = [op |-> "get_recent_streaks"]
  /\ ret' = get_recent_streaks(entries)
  /\ UNCHANGED <<entries, now>>
  /\ UNCHANGED <<analyzer_vars, chat_history, thread_vars>>

\* mood_tracker.get_insights(days_back)
GetInsights(days_back) ==
  /\ call = NoCall
  /\ call' = [op |-> "get_insights", days_back |-> days_back]
  /\ ret' = get_insights(entries, now, days_back)
  /\ UNCHANGED <<entries, now>>
  /\ UNCHANGED <<analyzer_vars, chat_history, thread_vars>>

\* mood_tracker.export_data(format, include_text)
ExportData(format, include_text) ==
  /\ call = NoCall
  /\ call' = [op |-> "export_data", format |-> format,
               include_text |-> include_text]
  /\ ret' = export_data(entries, format, include_text)
  /\ UNCHANGED <<entries, now>>
  /\ UNCHANGED <<analyzer_vars, chat_history, thread_vars>>

\* The caller has taken the returned value and is between two calls again.
Return ==
  /\ call # NoCall
  /\ call' = NoCall
  /\ ret' = "None"
  /\ UNCHANGED <<entries, now>>
  /\ UNCHANGED <<analyzer_vars, chat_history, thread_vars>>

NextTracker ==
  \/ \E a \in EntryArguments : AddEntry(a)
  \/ \E t \in ClockReadings : SetClock(t)
  \/ \E d \in DaysBack : GetEntriesByDateRange(d)
  \/ \E d \in DaysBack : GetStatistics(d)
  \/ \E d \in DaysBack : GetEmotionPatterns(d)
  \/ GetRecentStreaks
  \/ \E d \in DaysBack : GetInsights(d)
  \/ \E f \in ExportFormats : \E t \in BOOLEAN : ExportData(f, t)
  \/ Return

SpecTracker == InitTracker /\ [][NextTracker]_vars

(***************************************************************************)
(* The trend: a log of one day whose sentiments lie a tenth apart.         *)
(***************************************************************************)
TrendArguments ==
  {[text |-> <<"o","k">>, emotion |-> "joy", confidence |-> 700,
    sentiment_score |-> s] : s \in {100, 200, 700, 800}}

InitTrend ==
  /\ AnalyzerIdle
  /\ TrackerIdle
  /\ SessionIdle

NextTrend ==
  \/ \E a \in TrendArguments : AddEntry(a)
  \/ \E d \in {1} : GetStatistics(d)
  \/ Return

SpecTrend == InitTrend /\ [][NextTrend]_vars

(***************************************************************************)
(* The patterns: get_statistics and get_emotion_patterns on logs of one    *)
(* week, read at the midnight that ends the week.                          *)
(***************************************************************************)
MaxPatternEntries == 3

\* The log after the add_entry calls, each made at its clock reading.
RECURSIVE LogOf(_)
LogOf(calls) ==
  IF calls = <<>> THEN <<>>
  ELSE LET last == calls[Len(calls)]
       IN  add_entry(LogOf(SubSeq(calls, 1, Len(calls) - 1)), last.clock,
                     last.text, last.emotion, last.confidence,
                     last.sentiment_score)

\* Saturday 05:00 and 22:00, Sunday 05:00 and 12:00.
PatternStamps == {125, 142, 149, 156}

PatternEmotions == {"joy", "sadness"}

\* Every hour of the week.
WeekHours == 0..(HoursPerDay * Len(DayNames) - 1)

\* A call of add_entry at the clock reading, with the emotion.
PatternCall(clock, emotion) ==
  [clock |-> clock, text |-> <<"o","k">>, emotion |-> emotion,
   confidence |-> 700, sentiment_score |-> 500]

PatternLogs ==
  {LogOf(calls) :
     calls \in UNION {[1..n -> {PatternCall(t, e) : t \in PatternStamps,
                                                    e \in PatternEmotions}] :
                        n \in 0..MaxPatternEntries}}
  \cup {LogOf(<<PatternCall(h, "joy")>>) : h \in WeekHours}

PatternDaysBack == {0, 1, 7}

InitPatterns ==
  /\ AnalyzerIdle
  /\ entries \in PatternLogs
  /\ now = HoursPerDay * Len(DayNames)
  /\ call = NoCall
  /\ ret = "None"
  /\ SessionIdle

NextPatterns ==
  \/ \E d \in PatternDaysBack : GetStatistics(d)
  \/ \E d \in PatternDaysBack : GetEmotionPatterns(d)
  \/ \E d \in PatternDaysBack : GetInsights(d)
  \/ Return

SpecPatterns == InitPatterns /\ [][NextPatterns]_vars

(***************************************************************************)
(* The streaks and the insights: logs of three emotions, one entry every   *)
(* twelve hours, read twelve hours after the last entry.                   *)
(***************************************************************************)
MaxInsightEntries == 6

HalfDay == HoursPerDay \div 2

\* The i-th call of add_entry, with the emotion and its sentiment score.
InsightCall(i, emotion) ==
  [clock |-> HalfDay * i, text |-> <<"o","k">>, emotion |-> emotion,
   confidence |-> 700,
   sentiment_score |-> IF emotion = "joy" THEN 800
                       ELSE IF emotion = "sadness" THEN 200 ELSE 500]

InsightEmotions == {"joy", "sadness", "anger"}

InsightLogs ==
  {LogOf([i \in 1..Len(emotions) |-> InsightCall(i, emotions[i])]) :
     emotions \in UNION {[1..n -> InsightEmotions] : n \in 0..MaxInsightEntries}}

InsightDaysBack == {0, 1, 30}

InitInsights ==
  /\ AnalyzerIdle
  /\ entries \in InsightLogs
  /\ now = HalfDay * (Len(entries) + 1)
  /\ call = NoCall
  /\ ret = "None"
  /\ SessionIdle

NextInsights ==
  \/ GetRecentStreaks
  \/ \E d \in InsightDaysBack : GetInsights(d)
  \/ \E d \in InsightDaysBack : GetStatistics(d)
  \/ \E d \in InsightDaysBack : GetEmotionPatterns(d)
  \/ Return

SpecInsights == InitInsights /\ [][NextInsights]_vars

(***************************************************************************)
(* One MoodTracker shared by threads: one thread calls add_entry, the      *)
(* others call get_entries_by_date_range, get_statistics and               *)
(* get_recent_streaks.  The methods take no lock; a step is what a thread  *)
(* does between two reads or writes of self.entries.  The entries at the   *)
(* indices a thread has found below len(self.entries) never change, so     *)
(* reads of them are not separate steps.                                   *)
(***************************************************************************)
MaxThreadEntries == 3

MaxThreadDays == 1

Readers == {"reader 1", "reader 2"}

ThreadArguments ==
  {[text |-> <<"o","k">>, emotion |-> e, confidence |-> 700, sentiment_score |-> 500]
     : e \in {"joy", "sadness"}}

ThreadDaysBack == {0, 1}

WindowQueries == {"get_entries_by_date_range", "get_statistics"}

InitThreads ==
  /\ AnalyzerIdle
  /\ TrackerIdle
  /\ chat_history = <<>>
  /\ writer = NoFrame
  /\ readers = [r \in Readers |-> NoFrame]

\* A day passes.
Tick ==
  /\ now < MaxThreadDays * HoursPerDay
  /\ now' = now + HoursPerDay
  /\ UNCHANGED <<entries, call, ret>>
  /\ UNCHANGED <<analyzer_vars, chat_history, thread_vars>>

\* add_entry, lines 23-29: the entry is built, with the clock's reading.
WriterBuilds(a) ==
  /\ writer = NoFrame
  /\ Len(entries) < MaxThreadEntries
  /\ writer' = [pc |-> "append",
                entry |-> NewEntry(now, a.text, a.emotion, a.confidence,
                                   a.sentiment_score)]
  /\ UNCHANGED <<tracker_vars, readers>>
  /\ UNCHANGED <<analyzer_vars, chat_history>>

\* add_entry, line 31: self.entries.append(entry), and the return.
WriterAppends ==
  /\ writer.pc = "append"
  /\ entries' = Append(entries, writer.entry)
  /\ writer' = NoFrame
  /\ UNCHANGED <<now, call, ret, readers>>
  /\ UNCHANGED <<analyzer_vars, chat_history>>

ReaderStep(r, frame) ==
  /\ readers' = [readers EXCEPT ![r] = frame]
  /\ UNCHANGED <<tracker_vars, writer>>
  /\ UNCHANGED <<analyzer_vars, chat_history>>

\* get_entries_by_date_range, line 35, called by the reader or by its
\* get_statistics: the cutoff date, before the comprehension starts.
ReaderCallsWindowQuery(r, op, days_back) ==
  /\ readers[r] = NoFrame
  /\ ReaderStep(r, [pc |-> "comprehension", op |-> op, days_back |-> days_back,
                    clock |-> now, cutoff_date |-> now - timedelta(days_back),
                    index |-> 0, selected |-> <<>>])

\* One turn of the comprehension of line 36: the list iterator yields the
\* next entry while its index is below len(self.entries).
ReaderIterates(r) ==
  /\ readers[r].pc = "comprehension"
  /\ readers[r].index < Len(entries)
  /\ LET entry == entries[readers[r].index + 1]
     IN  ReaderStep(r, [readers[r] EXCEPT
                          !.index = @ + 1,
                          !.selected = IF entry.timestamp >= readers[r].cutoff_date
                                       THEN Append(@, entry) ELSE @])

\* The iterator is exhausted: get_entries_by_date_range returns the list, and
\* get_statistics goes on with that list alone.
ReaderFinishesWindowQuery(r) ==
  /\ readers[r].pc = "comprehension"
  /\ readers[r].index >= Len(entries)
  /\ ReaderStep(r, [pc |-> "returned", op |-> readers[r].op,
                    days_back |-> readers[r].days_back,
                    clock |-> readers[r].clock,
                    result |-> IF readers[r].op = "get_statistics"
                               THEN get_statistics(readers[r].selected,
                                                   readers[r].clock,
                                                   readers[r].days_back)
                               ELSE readers[r].selected])

\* get_recent_streaks, lines 155-156
ReaderCallsStreaks(r) ==
  /\ readers[r] = NoFrame
  /\ ReaderStep(r, IF Len(entries) < 2
                   THEN [pc |-> "returned", op |-> "get_recent_streaks",
                         result |-> <<>>]
                   ELSE [pc |-> "emotion", op |-> "get_recent_streaks"])

\* line 159, self.entries[-1]['emotion']
ReaderReadsLastEmotion(r) ==
  /\ readers[r].pc = "emotion"
  /\ ReaderStep(r, [pc |-> "start_date", op |-> "get_recent_streaks",
                    emotion |-> entries[Len(entries)].emotion])

\* line 159, self.entries[-1]['timestamp']
ReaderReadsLastTimestamp(r) ==
  /\ readers[r].pc = "start_date"
  /\ ReaderStep(r, [pc |-> "loop", op |-> "get_recent_streaks",
                    current_streak |->
                      [emotion |-> readers[r].emotion, count |-> 1,
                       start_date |-> entries[Len(entries)].timestamp]])

\* lines 161-174: range(len(self.entries) - 2, -1, -1) and the loop over it
ReaderLoops(r) ==
  /\ readers[r].pc = "loop"
  /\ ReaderStep(r, [pc |-> "returned", op |-> "get_recent_streaks",
                    result |-> StreaksFrom(entries, Len(entries) - 1,
                                           readers[r].current_streak, <<>>)])

\* The reader has its result and is free for its next call.
ReaderReturns(r) ==
  /\ readers[r].pc = "returned"
  /\ ReaderStep(r, NoFrame)

NextThreads ==
  \/ Tick
  \/ \E a \in ThreadArguments : WriterBuilds(a)
  \/ WriterAppends
  \/ \E r \in Readers : \E op \in WindowQueries : \E d \in ThreadDaysBack :
        ReaderCallsWindowQuery(r, op, d)
  \/ \E r \in Readers : ReaderIterates(r)
  \/ \E r \in Readers : ReaderFinishesWindowQuery(r)
  \/ \E r \in Readers : ReaderCallsStreaks(r)
  \/ \E r \in Readers : ReaderReadsLastEmotion(r)
  \/ \E r \in Readers : ReaderReadsLastTimestamp(r)
  \/ \E r \in Readers : ReaderLoops(r)
  \/ \E r \in Readers : ReaderReturns(r)

SpecThreads == InitThreads /\ [][NextThreads]_vars

(***************************************************************************)
(* The application: clicks on "Analyze Emotion" in one browser session.    *)
(* A click runs the page script once, and the script runs the handler of   *)
(* the Chat & Analysis page to its end.                                    *)
(***************************************************************************)
MaxClicks == 2

\* What the text area holds when the button is clicked.
AppTexts ==
  {<<>>, <<" ", "\n">>, <<"o","k">>, <<" ","s","a","d","\n">>,
   <<"v","e","r","y"," ","h","a","p","p","y">>}

\* Hours that pass between the two readings of the clock in the handler.
Elapsed == {0, 1}

\* EmotionSuggestor.get_suggestion: one of the suggestions listed for the
\* emotion, chosen at random; which one is left open.
get_suggestion(emotion) == [suggestion_for |-> emotion]

InitApp ==
  /\ AnalyzerIdle
  /\ TrackerIdle
  /\ SessionIdle

\* Mutant: the handler runs whatever the text area holds.
ClickAnalyze_Unguarded(t, estimate, elapsed) ==
  /\ Len(chat_history) < MaxClicks
  /\ user_input' = t
  /\ estimator_output' = estimate
  /\ emotion_result' = analyze_emotion(t, estimate)
  /\ called' = methods_called(t)
  /\ pc' = "done"
  /\ entries' = add_entry(entries, now, t, emotion_result'.primary_emotion,
                          emotion_result'.confidence,
                          emotion_result'.sentiment_score)
  /\ now' = now + elapsed
  /\ chat_history' =
       Append(chat_history,
              [timestamp  |-> now',
               text       |-> t,
               emotion    |-> emotion_result'.primary_emotion,
               confidence |-> emotion_result'.confidence,
               suggestion |-> get_suggestion(emotion_result'.primary_emotion)])
  /\ UNCHANGED <<estimator, analyses, call, ret, thread_vars>>

\* Mutant: the chat keeps the text without its surrounding whitespace.
ClickAnalyze_ChatStripped(t, estimate, elapsed) ==
  /\ Len(chat_history) < MaxClicks \/ strip(t) = <<>>
  /\ user_input' = t
  /\ IF strip(t) # <<>>
     THEN /\ estimator_output' = estimate
          /\ emotion_result' = analyze_emotion(t, estimate)
          /\ called' = methods_called(t)
          /\ pc' = "done"
          /\ entries' = add_entry(entries, now, t, emotion_result'.primary_emotion,
                                  emotion_result'.confidence,
                                  emotion_result'.sentiment_score)
          /\ now' = now + elapsed
          /\ chat_history' =
               Append(chat_history,
                      [timestamp  |-> now',
                       text       |-> strip(t),
                       emotion    |-> emotion_result'.primary_emotion,
                       confidence |-> emotion_result'.confidence,
                       suggestion |-> get_suggestion(emotion_result'.primary_emotion)])
     ELSE UNCHANGED <<estimator_output, emotion_result, called, pc, entries, now,
                      chat_history>>
  /\ UNCHANGED <<estimator, analyses, call, ret, thread_vars>>

\* A click on "Analyze Emotion" with t in the text area: the script's run,
\* `if analyze_button and user_input.strip():` and its body.  The estimators
\* return `estimate` for t; `elapsed` hours pass between add_entry's reading
\* of the clock and the handler's.
ClickAnalyze(t, estimate, elapsed) ==
  /\ Len(chat_history) < MaxClicks \/ strip(t) = <<>>
  /\ user_input' = t
  /\ IF strip(t) # <<>>
     THEN /\ estimator_output' = estimate
          /\ emotion_result' = analyze_emotion(t, estimate)
          /\ called' = methods_called(t)
          /\ pc' = "done"
          /\ entries' = add_entry(entries, now, t, emotion_result'.primary_emotion,
                                  emotion_result'.confidence,
                                  emotion_result'.sentiment_score)
          /\ now' = now + elapsed
          /\ chat_history' =
               Append(chat_history,
                      [timestamp  |-> now',
                       text       |-> t,
                       emotion    |-> emotion_result'.primary_emotion,
                       confidence |-> emotion_result'.confidence,
                       suggestion |-> get_suggestion(emotion_result'.primary_emotion)])
     ELSE UNCHANGED <<estimator_output, emotion_result, called, pc, entries, now,
                      chat_history>>
  /\ UNCHANGED <<estimator, analyses, call, ret, thread_vars>>

NextApp ==
  \E t \in AppTexts : \E estimate \in ProbeEstimates : \E elapsed \in Elapsed :
     ClickAnalyze(t, estimate, elapsed)

SpecApp == InitApp /\ [][NextApp]_vars

(***************************************************************************)
(* Properties of analyze_emotion (specification Spec).                     *)
(***************************************************************************)
AllWhitespace(t) == \A i \in 1..Len(t) : t[i] \in Whitespace

Analyzed == pc = "done" /\ ~AllWhitespace(user_input)

KeywordScores == emotion_result.emotion_scores

LexiconOrder ==
  <<"joy", "sadness", "anger", "fear", "surprise", "disgust", "anticipation",
    "trust", "love", "anxiety">>

\* C1: on an empty or whitespace-only text analyze_emotion returns neutral,
\* confidence 0.5, sentiment 0.0 and two empty maps, and calls neither
\* analyze_sentiment nor detect_emotion_keywords.
C1_BlankTextIsNeutral ==
  (pc = "done" /\ AllWhitespace(user_input)) =>
     /\ emotion_result.primary_emotion = "neutral"
     /\ emotion_result.confidence = 500
     /\ emotion_result.sentiment_score = 0
     /\ DOMAIN emotion_result.emotion_scores = {}
     /\ DOMAIN emotion_result.sentiment_data = {}
     /\ "analyze_sentiment" \notin called
     /\ "detect_emotion_keywords" \notin called

C1_Witness ==
  pc = "done" /\ Len(user_input) >= 2 /\ AllWhitespace(user_input)

\* C2: the confidence of a non-blank text lies in [0.3, 0.95], whatever the
\* estimators return; the confidence of a blank text is 0.5.
C2_ConfidenceRange ==
  pc = "done" =>
     IF AllWhitespace(user_input)
     THEN emotion_result.confidence = 500
     ELSE emotion_result.confidence >= 300 /\ emotion_result.confidence <= 950

C2_Witness ==
  /\ Analyzed
  /\ emotion_result.confidence = 950
  /\ estimator_output.polarity = 1000
  /\ estimator_output.subjectivity = 1000

\* C3: when some keyword score is above 0 the primary emotion is the label of
\* maximal score, the first such label in lexicon order, and the sentiment
\* fallback is not called.
C3_KeywordMaximumWins ==
  (Analyzed /\ \E e \in DOMAIN KeywordScores : KeywordScores[e] > 0) =>
     LET i == CHOOSE i \in 1..Len(LexiconOrder) :
                /\ \A j \in 1..Len(LexiconOrder) :
                      KeywordScores[LexiconOrder[j]] <= KeywordScores[LexiconOrder[i]]
                /\ \A j \in 1..(i - 1) :
                      KeywordScores[LexiconOrder[j]] < KeywordScores[LexiconOrder[i]]
     IN  /\ emotion_result.primary_emotion = LexiconOrder[i]
         /\ "classify_emotion_from_sentiment" \notin called

\* Two labels share the maximum; a third has a smaller score above 0.
C3_Witness ==
  /\ Analyzed
  /\ \E e \in DOMAIN KeywordScores : \E f \in DOMAIN KeywordScores :
        /\ e # f
        /\ KeywordScores[e] = KeywordScores[f]
        /\ KeywordScores[e] > 0
        /\ \A g \in DOMAIN KeywordScores : KeywordScores[g] <= KeywordScores[e]
        /\ \E g \in DOMAIN KeywordScores :
              KeywordScores[g] > 0 /\ KeywordScores[g] < KeywordScores[e]

NoKeywordSignal ==
  Analyzed /\ \A e \in DOMAIN KeywordScores : KeywordScores[e] = 0

\* C4: with every keyword score 0 the primary emotion follows the sentiment
\* ladder, strict at 0.5, -0.5, 0.1 and -0.1.
C4_SentimentLadder ==
  NoKeywordSignal =>
     LET combined == emotion_result.sentiment_score
         vader == emotion_result.sentiment_data.vader_scores
     IN  /\ combined > 500 => emotion_result.primary_emotion = "joy"
         /\ combined < -500 => emotion_result.primary_emotion = "sadness"
         /\ (combined > 100 /\ combined <= 500) =>
               emotion_result.primary_emotion = "anticipation"
         /\ (combined < -100 /\ combined >= -500) =>
               /\ (vader.neg > 300 /\ vader.compound < -300) =>
                     emotion_result.primary_emotion = "anger"
               /\ (vader.neg > 300 /\ vader.compound >= -300) =>
                     emotion_result.primary_emotion = "fear"
               /\ vader.neg <= 300 => emotion_result.primary_emotion = "sadness"
         /\ (combined >= -100 /\ combined <= 100) =>
               /\ vader.neu > 700 => emotion_result.primary_emotion = "trust"
               /\ vader.neu <= 700 =>
                     emotion_result.primary_emotion = "anticipation"

\* The boundary 0.5 falls through to the third rung.
C4_Witness ==
  /\ NoKeywordSignal
  /\ emotion_result.sentiment_score = 500
  /\ emotion_result.primary_emotion = "anticipation"

\* Where the keyword starts in the text.
Occurrences(t, keyword) ==
  {i \in 1..(Len(t) - Len(keyword) + 1) : SubSeq(t, i, i + Len(keyword) - 1) = keyword}

\* A modifier and one space end right before position i of the text.
ModifierInFront(t, i) ==
  \E m \in 1..Len(intensity_modifiers) :
     LET phrase == intensity_modifiers[m].modifier \o <<" ">>
     IN  i > Len(phrase) /\ SubSeq(t, i - Len(phrase), i - 1) = phrase

OnlySignal(e) ==
  \A f \in DOMAIN KeywordScores : f # e => KeywordScores[f] = 0

ScoredAndChosen(e) ==
  /\ KeywordScores[e] >= 1000
  /\ OnlySignal(e) => emotion_result.primary_emotion = e

\* C5 as claimed: a text with an occurrence of a keyword that has no modifier
\* in front of it gives the keyword's emotion a score of at least 1, and that
\* emotion is the primary one when it alone has a score above 0.
C5_AsClaimed ==
  Analyzed =>
     \A x \in 1..Len(emotion_keywords) :
        \A k \in 1..Len(emotion_keywords[x].keywords) :
           LET t == preprocess_text(user_input)
               keyword == emotion_keywords[x].keywords[k]
           IN  (\E i \in Occurrences(t, keyword) : ~ModifierInFront(t, i))
                  => ScoredAndChosen(emotion_keywords[x].emotion)

\* C5, amended: the same for a text in which the keyword occurs and none of
\* its occurrences has a modifier in front of it.
C5_UnmodifiedKeyword ==
  Analyzed =>
     \A x \in 1..Len(emotion_keywords) :
        \A k \in 1..Len(emotion_keywords[x].keywords) :
           LET t == preprocess_text(user_input)
               keyword == emotion_keywords[x].keywords[k]
           IN  (/\ Occurrences(t, keyword) # {}
                /\ \A i \in Occurrences(t, keyword) : ~ModifierInFront(t, i))
                  => ScoredAndChosen(emotion_keywords[x].emotion)

\* "sad", unmodified, after a modifier and another word: sadness alone scores.
C5_Witness ==
  /\ Analyzed
  /\ LET t == preprocess_text(user_input)
     IN  /\ Occurrences(t, <<"s","a","d">>) # {}
         /\ \A i \in Occurrences(t, <<"s","a","d">>) : ~ModifierInFront(t, i)
         /\ \E m \in 1..Len(intensity_modifiers) :
               Contains(t, intensity_modifiers[m].modifier)
  /\ OnlySignal("sadness")
  /\ emotion_result.primary_emotion = "sadness"

IsModifiedKeyword(t, m, keyword) ==
  t = intensity_modifiers[m].modifier \o <<" ">> \o keyword

\* C6 as claimed: on the text "<modifier> <keyword>" the keyword's emotion
\* scores exactly the modifier's multiplier.
C6_AsClaimed ==
  pc = "done" =>
     \A m \in 1..Len(intensity_modifiers) :
        \A x \in 1..Len(emotion_keywords) :
           \A k \in 1..Len(emotion_keywords[x].keywords) :
              IsModifiedKeyword(user_input, m, emotion_keywords[x].keywords[k])
                 => KeywordScores[emotion_keywords[x].emotion]
                       = intensity_modifiers[m].multiplier

\* No other keyword of the emotion's list occurs in the text.
NoOtherKeyword(t, x, k) ==
  \A k2 \in 1..Len(emotion_keywords[x].keywords) :
     k2 # k => Occurrences(t, emotion_keywords[x].keywords[k2]) = {}

\* C6, amended: on the text "<modifier> <keyword>" in which no other keyword
\* of the same emotion occurs, the emotion scores exactly the multiplier.
C6_ModifiedKeyword ==
  pc = "done" =>
     \A m \in 1..Len(intensity_modifiers) :
        \A x \in 1..Len(emotion_keywords) :
           \A k \in 1..Len(emotion_keywords[x].keywords) :
              (/\ IsModifiedKeyword(user_input, m, emotion_keywords[x].keywords[k])
               /\ NoOtherKeyword(user_input, x, k))
                 => KeywordScores[emotion_keywords[x].emotion]
                       = intensity_modifiers[m].multiplier

\* "a bit <keyword>" with a keyword of the love list: love scores 0.7.
C6_Witness ==
  /\ pc = "done"
  /\ \E k \in 1..Len(emotion_keywords[9].keywords) :
        /\ IsModifiedKeyword(user_input, 7, emotion_keywords[9].keywords[k])
        /\ NoOtherKeyword(user_input, 9, k)
  /\ KeywordScores["love"] = 700

C8_AppendOnly ==
  [][/\ \/ entries' = entries
        \/ /\ call'.op = "add_entry"
           /\ Len(entries') = Len(entries) + 1
           /\ \A i \in 1..Len(entries) : entries'[i] = entries[i]
     /\ call'.op = "add_entry" =>
           /\ ret' = "None"
           /\ entries' # <<>>
           /\ LET new == entries'[Len(entries')]
              IN  /\ new.timestamp = now'
                  /\ new.text = call'.args.text
                  /\ new.emotion = call'.args.emotion
                  /\ new.confidence = call'.args.confidence
                  /\ new.sentiment_score = call'.args.sentiment_score
                  /\ DOMAIN new = {"timestamp", "text", "emotion", "confidence",
                                   "sentiment_score"}]_vars

\* An entry outside the documented ranges was appended behind two others, the
\* first of them later than the second.
C8_Witness ==
  /\ call.op = "add_entry"
  /\ Len(entries) = 3
  /\ entries[3].confidence > 1000
  /\ entries[1].timestamp > entries[2].timestamp

InWindow(days_back) ==
  {i \in 1..Len(entries) : entries[i].timestamp >= now - days_back * 24}

\* The k-th smallest index of the set.
KthIndex(indices, k) ==
  CHOOSE i \in indices : Cardinality({j \in indices : j <= i}) = k

\* C9: get_entries_by_date_range(days_back) returns the entries whose timestamp
\* is at or after now - days_back days, all of them, in insertion order.
C9_DateRange ==
  call.op = "get_entries_by_date_range" =>
     LET window == InWindow(call.days_back)
     IN  /\ Len(ret) = Cardinality(window)
         /\ \A k \in 1..Len(ret) : ret[k] = entries[KthIndex(window, k)]

\* An entry exactly at the cutoff is returned, an older one is not, and a
\* returned entry stands before a dropped one in the log.
C9_Witness ==
  /\ call.op = "get_entries_by_date_range"
  /\ \E i \in InWindow(call.days_back) :
        entries[i].timestamp = now - call.days_back * 24
  /\ \E i \in InWindow(call.days_back) : \E j \in 1..Len(entries) :
        i < j /\ j \notin InWindow(call.days_back)
  /\ Len(ret) >= 2

\* C10: get_statistics returns the empty snapshot exactly when the window has
\* no entry, the trend "insufficient data" exactly when it has 1, 2 or 3, and
\* one of improving, declining, stable when it has 4 or more.
C10_StatisticsBySize ==
  call.op = "get_statistics" =>
     LET n == Cardinality(InWindow(call.days_back))
     IN  /\ n = 0 <=>
               /\ ret.total_entries = 0
               /\ ret.most_common_emotion = "none"
               /\ ret.avg_confidence = 0
               /\ ret.avg_sentiment = 0
               /\ ret.emotion_distribution = <<>>
               /\ ret.daily_counts = <<>>
               /\ ret.trend = "no data"
         /\ n \in 1..3 <=> ret.trend = "insufficient data"
         /\ n >= 4 => ret.trend \in {"improving", "declining", "stable"}

\* Four entries in the window, the later two of a better mood.
C10_Witness ==
  /\ call.op = "get_statistics"
  /\ Cardinality(InWindow(call.days_back)) = 4
  /\ ret.trend = "improving"

(***************************************************************************)
(* Properties of the trend (specification SpecTrend).                      *)
(***************************************************************************)
\* The entries get_entries_by_date_range(days_back) returns, as the claims
\* describe them.
Window(days_back) ==
  LET window == InWindow(days_back)
  IN  [k \in 1..Cardinality(window) |-> entries[KthIndex(window, k)]]

\* The sum of the sentiment scores of entries from..to of the window.
RECURSIVE SentimentSum(_, _, _)
SentimentSum(window, from, to) ==
  IF from > to THEN 0
  ELSE window[from].sentiment_score + SentimentSum(window, from + 1, to)

\* The trend of the claim, in exact arithmetic on the scores as given: the
\* second half's mean against the first half's mean plus or minus 0.1.
TrendByHalves(window) ==
  LET n      == Len(window)
      n1     == n \div 2
      n2     == n - n1
      first  == SentimentSum(window, 1, n1)
      second == SentimentSum(window, n1 + 1, n)
  IN  IF second * n1 > first * n2 + 100 * n1 * n2 THEN "improving"
      ELSE IF second * n1 < first * n2 - 100 * n1 * n2 THEN "declining"
      ELSE "stable"

\* C11: for a window of four or more entries the trend is the one that the
\* means of the first floor(n/2) and of the remaining entries give, and a
\* difference of exactly 0.1 is stable.
C11_TrendByHalves ==
  (call.op = "get_statistics" /\ ret.total_entries >= 4) =>
     ret.trend = TrendByHalves(Window(call.days_back))

(***************************************************************************)
(* Properties of the patterns (specification SpecPatterns).                *)
(***************************************************************************)
\* The emotions of the window's entries that satisfy Keep, in insertion order.
EmotionsOf(window, Keep(_)) ==
  LET kept == SelectSeq(window, Keep)
  IN  [i \in 1..Len(kept) |-> kept[i].emotion]

\* How often a label occurs in a group and where it occurs first.
CountIn(group, label) == Cardinality({i \in 1..Len(group) : group[i] = label})

FirstIn(group, label) ==
  CHOOSE i \in 1..Len(group) :
     group[i] = label /\ \A j \in 1..(i - 1) : group[j] # label

\* The label has the maximum count of the group and, of the labels that
\* have it, the earliest first occurrence.
MostFrequentIn(group, label) ==
  /\ \E i \in 1..Len(group) : group[i] = label
  /\ \A i \in 1..Len(group) :
        \/ CountIn(group, group[i]) < CountIn(group, label)
        \/ /\ CountIn(group, group[i]) = CountIn(group, label)
           /\ FirstIn(group, label) <= FirstIn(group, group[i])

\* Two labels of the group share the maximum count.
TiedIn(group) ==
  \E i, j \in 1..Len(group) :
     /\ group[i] # group[j]
     /\ CountIn(group, group[i]) = CountIn(group, group[j])
     /\ \A k \in 1..Len(group) :
           CountIn(group, group[k]) <= CountIn(group, group[i])

DayGroup(window, day) ==
  EmotionsOf(window, LAMBDA e : day_name(e.timestamp) = day)

PeriodGroup(window, period) ==
  EmotionsOf(window, LAMBDA e : time_period(hour(e.timestamp)) = period)

\* C12: the most common emotion of get_statistics, and the emotion that
\* get_emotion_patterns reports for a weekday or a time of day, has the
\* maximum count in its group, and of the labels that share the maximum it
\* is the one that occurs first in the group.
C12_MostFrequentFirst ==
  /\ (call.op = "get_statistics" /\ ret.total_entries > 0) =>
        MostFrequentIn(EmotionsOf(Window(call.days_back), LAMBDA e : TRUE),
                       ret.most_common_emotion)
  /\ (call.op = "get_emotion_patterns" /\ DOMAIN ret # {}) =>
        LET window == Window(call.days_back)
        IN  /\ \A i \in 1..Len(ret.day_patterns) :
                  MostFrequentIn(DayGroup(window, ret.day_patterns[i].key),
                                 ret.day_patterns[i].value)
            /\ \A i \in 1..Len(ret.time_patterns) :
                  MostFrequentIn(PeriodGroup(window, ret.time_patterns[i].key),
                                 ret.time_patterns[i].value)

\* A weekday whose two labels are tied is reported with sadness, which the
\* group shows first, and a time of day is reported with joy.
C12_Witness ==
  /\ call.op = "get_emotion_patterns"
  /\ DOMAIN ret # {}
  /\ \E i \in 1..Len(ret.day_patterns) :
        /\ TiedIn(DayGroup(Window(call.days_back), ret.day_patterns[i].key))
        /\ ret.day_patterns[i].value = "sadness"
  /\ \E i \in 1..Len(ret.time_patterns) : ret.time_patterns[i].value = "joy"

\* The hours of each time of day, as the claim lists them.
BucketHours ==
  [morning   |-> 5..11,
   afternoon |-> 12..16,
   evening   |-> 17..21,
   night     |-> {22, 23} \cup 0..4]

\* The keys of a dict kept as the sequence of its items.
Keys(items) == {items[i].key : i \in 1..Len(items)}

\* C14: an in-window entry falls into exactly one time of day, the one whose
\* hours hold its hour; time_patterns has the times of day and day_patterns
\* the weekdays that hold an in-window entry, each once, and no others; the
\* result is the empty dict exactly when the window is empty.
C14_Buckets ==
  call.op = "get_emotion_patterns" =>
     LET window == Window(call.days_back)
         hours  == {window[i].timestamp % 24 : i \in 1..Len(window)}
     IN  /\ window = <<>> <=> DOMAIN ret = {}
         /\ window # <<>> =>
               /\ DOMAIN ret = {"day_patterns", "time_patterns"}
               /\ \A h \in hours :
                     /\ Cardinality({p \in DOMAIN BucketHours :
                                       h \in BucketHours[p]}) = 1
                     /\ h \in BucketHours[time_period(h)]
               /\ Keys(ret.time_patterns) =
                     {p \in DOMAIN BucketHours : hours \cap BucketHours[p] # {}}
               /\ Len(ret.time_patterns) = Cardinality(Keys(ret.time_patterns))
               /\ Keys(ret.day_patterns) =
                     {day_name(window[i].timestamp) : i \in 1..Len(window)}
               /\ Len(ret.day_patterns) = Cardinality(Keys(ret.day_patterns))

\* A Saturday morning entry outside the window and a Sunday noon entry
\* inside it: the result has the afternoon and Sunday only.
C14_Witness ==
  /\ call.op = "get_emotion_patterns"
  /\ Len(entries) = 2
  /\ entries[1].timestamp % 24 = 5
  /\ entries[2].timestamp % 24 = 12
  /\ Len(Window(call.days_back)) = 1
  /\ Keys(ret.time_patterns) = {"afternoon"}
  /\ Keys(ret.day_patterns) = {"Sunday"}

(***************************************************************************)
(* Properties of the streaks and the insights (specification SpecInsights).*)
(***************************************************************************)
\* The maximal runs of two or more entries of one emotion: the pairs of the
\* run's first and last index.
Runs ==
  {r \in (1..Len(entries)) \X (1..Len(entries)) :
     /\ r[1] < r[2]
     /\ \A i \in r[1]..r[2] : entries[i].emotion = entries[r[1]].emotion
     /\ r[1] > 1 => entries[r[1] - 1].emotion # entries[r[1]].emotion
     /\ r[2] < Len(entries) => entries[r[2] + 1].emotion # entries[r[2]].emotion}

\* The run that has k - 1 later runs behind it.
KthLatestRun(k) ==
  CHOOSE r \in Runs : Cardinality({q \in Runs : q[1] > r[1]}) = k - 1

EmotionsOfLog == [i \in 1..Len(entries) |-> entries[i].emotion]

\* C13: get_recent_streaks returns the maximal runs of two or more entries
\* of one emotion of the whole log, the latest run first, each with its
\* emotion, its length and the timestamp of its oldest entry; for joy, joy,
\* sadness, sadness, sadness, anger these are sadness 3 and joy 2.
C13_Streaks ==
  call.op = "get_recent_streaks" =>
     /\ Len(ret) = Cardinality(Runs)
     /\ \A k \in 1..Len(ret) :
           LET r == KthLatestRun(k)
           IN  /\ DOMAIN ret[k] = {"emotion", "count", "start_date"}
               /\ ret[k].emotion = entries[r[1]].emotion
               /\ ret[k].count = r[2] - r[1] + 1
               /\ ret[k].start_date = entries[r[1]].timestamp
     /\ EmotionsOfLog = <<"joy", "joy", "sadness", "sadness", "sadness", "anger">>
          => /\ Len(ret) = 2
             /\ ret[1].emotion = "sadness" /\ ret[1].count = 3
             /\ ret[2].emotion = "joy" /\ ret[2].count = 2

\* The log of the example, and the two streaks start at the third and at
\* the first entry.
C13_Witness ==
  /\ call.op = "get_recent_streaks"
  /\ EmotionsOfLog = <<"joy", "joy", "sadness", "sadness", "sadness", "anger">>
  /\ Len(ret) = 2
  /\ ret[1].start_date = entries[3].timestamp
  /\ ret[2].start_date = entries[1].timestamp
  /\ entries[1].timestamp < entries[3].timestamp

\* The sentences of the list that tell of a streak.
StreakSentences(insights) ==
  {i \in 1..Len(insights) : insights[i].kind = "streak"}

\* C15: get_insights has the sentence about consecutive entries exactly when
\* get_recent_streaks is not empty and its first streak counts three or
\* more; the sentence names that streak's count and emotion and is the last
\* of the list.
C15_StreakSentence ==
  call.op = "get_insights" =>
     LET streaks == get_recent_streaks(entries)
     IN  /\ StreakSentences(ret) # {} <=>
               (streaks # <<>> /\ streaks[1].count >= 3)
         /\ StreakSentences(ret) # {} =>
               /\ StreakSentences(ret) = {Len(ret)}
               /\ ret[Len(ret)].count = streaks[1].count
               /\ ret[Len(ret)].emotion = streaks[1].emotion

\* The sentence closes a list of four sentences, and an older streak is left
\* out of it.
C15_Witness ==
  /\ call.op = "get_insights"
  /\ Len(ret) >= 4
  /\ ret[Len(ret)].kind = "streak"
  /\ ret[Len(ret)].count = 3
  /\ Len(get_recent_streaks(entries)) = 2

\* The list without its sentences about a streak.
WithoutStreak(insights) == SelectSeq(insights, LAMBDA x : x.kind # "streak")

\* C16 as claimed: each of the three results is the result for the log of
\* the in-window entries alone, and get_insights returns the empty list
\* when the window is empty.
C16_AsClaimed ==
  /\ call.op = "get_statistics" =>
        ret = get_statistics(Window(call.days_back), now, call.days_back)
  /\ call.op = "get_emotion_patterns" =>
        ret = get_emotion_patterns(Window(call.days_back), now, call.days_back)
  /\ call.op = "get_insights" =>
        /\ ret = get_insights(Window(call.days_back), now, call.days_back)
        /\ Window(call.days_back) = <<>> => ret = <<>>

\* C16, amended: get_statistics and get_emotion_patterns return what they
\* return for the log of the in-window entries alone; so does get_insights
\* once the sentence about consecutive entries is left out, and with an
\* empty window it returns nothing but that sentence.
C16_WindowOnly ==
  /\ call.op = "get_statistics" =>
        ret = get_statistics(Window(call.days_back), now, call.days_back)
  /\ call.op = "get_emotion_patterns" =>
        ret = get_emotion_patterns(Window(call.days_back), now, call.days_back)
  /\ call.op = "get_insights" =>
        /\ WithoutStreak(ret) =
              WithoutStreak(get_insights(Window(call.days_back), now,
                                         call.days_back))
        /\ Window(call.days_back) = <<>> => WithoutStreak(ret) = <<>>

\* The window holds two of the log's entries, and the list tells of a
\* streak that is longer than the window.
C16_Witness ==
  /\ call.op = "get_insights"
  /\ Len(Window(call.days_back)) = 2
  /\ Len(entries) > 2
  /\ ret[Len(ret)].kind = "streak"
  /\ ret[Len(ret)].count > 2
  /\ ret # get_insights(Window(call.days_back), now, call.days_back)

(***************************************************************************)
(* The contribution of one keyword (specification Spec).                   *)
(***************************************************************************)
\* The enumeration order of the modifiers.
ModifierOrder ==
  <<<<"v","e","r","y">>, <<"e","x","t","r","e","m","e","l","y">>,
    <<"r","e","a","l","l","y">>, <<"q","u","i","t","e">>,
    <<"s","o","m","e","w","h","a","t">>, <<"s","l","i","g","h","t","l","y">>,
    <<"a"," ","b","i","t">>, <<"i","n","c","r","e","d","i","b","l","y">>,
    <<"t","o","t","a","l","l","y">>, <<"c","o","m","p","l","e","t","e","l","y">>>>

MultiplierOf(modifier) ==
  LET m == CHOOSE n \in 1..Len(intensity_modifiers) :
              intensity_modifiers[n].modifier = modifier
  IN  intensity_modifiers[m].multiplier

\* The multiplier of the first modifier of `order` for which
\* "<modifier> <keyword>" occurs in the text, 1 when there is none.
RECURSIVE FirstMatchingMultiplier(_, _, _)
FirstMatchingMultiplier(order, t, keyword) ==
  IF order = <<>> THEN 1000
  ELSE IF Occurrences(t, Head(order) \o <<" ">> \o keyword) # {}
       THEN MultiplierOf(Head(order))
       ELSE FirstMatchingMultiplier(Tail(order), t, keyword)

\* What the keywords of a list, from the k-th on, contribute together: each
\* keyword that occurs in the text counts once.
RECURSIVE Contributions(_, _, _)
Contributions(keywords, k, t) ==
  IF k > Len(keywords) THEN 0
  ELSE (IF Occurrences(t, keywords[k]) = {} THEN 0
        ELSE FirstMatchingMultiplier(ModifierOrder, t, keywords[k]))
       + Contributions(keywords, k + 1, t)

\* C20: the score of an emotion is the sum, over the keywords of its list
\* that occur in the normalized text, of one contribution per keyword however
\* often it occurs: the multiplier of the first modifier, in the order very,
\* extremely, really, quite, somewhat, slightly, a bit, incredibly, totally,
\* completely, for which "<modifier> <keyword>" occurs in the text, or 1 when
\* there is none; multipliers are never combined.
C20_OneContributionPerKeyword ==
  Analyzed =>
     \A x \in 1..Len(emotion_keywords) :
        KeywordScores[emotion_keywords[x].emotion]
           = Contributions(emotion_keywords[x].keywords, 1, preprocess_text(user_input))

\* "sad" occurs twice, once after "slightly" and once after "very": sadness
\* scores 1.5, the multiplier of "very", which comes first in the order.
C20_Witness ==
  /\ Analyzed
  /\ LET t == preprocess_text(user_input)
     IN  /\ Cardinality(Occurrences(t, <<"s","a","d">>)) = 2
         /\ Occurrences(t, <<"s","l","i","g","h","t","l","y"," ","s","a","d">>) # {}
         /\ Occurrences(t, <<"v","e","r","y"," ","s","a","d">>) # {}
         /\ Occurrences(t, <<"s","l","i","g","h","t","l","y">>)
               = {1}
  /\ KeywordScores["sadness"] = 1500

(***************************************************************************)
(* Errors and frame of the mood log (specification SpecTracker).           *)
(***************************************************************************)
\* C17: export_data with a format that is neither csv nor json, whatever
\* its case, raises an error and returns no data, in every state of the log.
C17_InvalidFormatRaises ==
  (/\ call.op = "export_data"
   /\ lower(call.format) \notin {<<"c","s","v">>, <<"j","s","o","n">>})
     => DOMAIN ret = {"raised"}

\* The confidence or the sentiment score lies outside its documented range.
OutOfRange(confidence, sentiment_score) ==
  \/ confidence < 0 \/ confidence > 1000
  \/ sentiment_score < -1000 \/ sentiment_score > 1000

\* C18: add_entry with a confidence outside [0, 1] or a sentiment score
\* outside [-1, 1] does not return normally, and no such entry is ever in
\* the log.
C18_RejectsOutOfRange ==
  /\ (/\ call.op = "add_entry"
      /\ OutOfRange(call.args.confidence, call.args.sentiment_score))
       => ret # "None"
  /\ \A i \in 1..Len(entries) :
        ~OutOfRange(entries[i].confidence, entries[i].sentiment_score)

QueryOps ==
  {"get_entries_by_date_range", "get_statistics", "get_emotion_patterns",
   "get_recent_streaks", "get_insights", "export_data"}

\* C19: a call of one of the six queries leaves the log as it was: the same
\* entries with the same values in the same order.
C19_QueriesKeepLog ==
  [][call'.op \in QueryOps => entries' = entries]_vars

\* get_recent_streaks has returned two streaks of a log of four entries,
\* which are still there.
C19_Witness ==
  /\ call.op = "get_recent_streaks"
  /\ Len(ret) = 2
  /\ Len(entries) = 4

(***************************************************************************)
(* The confidence formula (specification Spec).                            *)
(***************************************************************************)
\* Ten times the claimed confidence, in thousandths, for a keyword score s:
\* 0.4 + min(s * 0.2, 0.3) + |combined| * 0.2 + subjectivity * 0.1, clamped
\* to [0.3, 0.95].
TenfoldConfidence(s) ==
  LET sum == 4000 + (IF 2 * s < 3000 THEN 2 * s ELSE 3000)
                  + 2 * (IF emotion_result.sentiment_score < 0
                         THEN 0 - emotion_result.sentiment_score
                         ELSE emotion_result.sentiment_score)
                  + estimator_output.subjectivity
  IN  IF sum < 3000 THEN 3000 ELSE IF sum > 9500 THEN 9500 ELSE sum

\* C21: on a non-blank text the confidence is 0.4 + min(s * 0.2, 0.3)
\* + |combined_sentiment| * 0.2 + subjectivity * 0.1 clamped to [0.3, 0.95],
\* s being the keyword score of the primary emotion; s is 0 when the primary
\* emotion comes from the sentiment fallback.
C21_ConfidenceFormula ==
  Analyzed =>
     /\ 10 * emotion_result.confidence
           = TenfoldConfidence(KeywordScores[emotion_result.primary_emotion])
     /\ "classify_emotion_from_sentiment" \in called =>
           /\ KeywordScores[emotion_result.primary_emotion] = 0
           /\ 10 * emotion_result.confidence = TenfoldConfidence(0)

\* A keyword score above 1.5, whose term is capped at 0.3, with a sentiment
\* and a subjectivity that bring the sum to 0.9, below the upper clamp.
C21_Witness ==
  /\ Analyzed
  /\ KeywordScores[emotion_result.primary_emotion] > 1500
  /\ emotion_result.sentiment_score = -400
  /\ estimator_output.subjectivity = 500
  /\ emotion_result.confidence = 830

(***************************************************************************)
(* One writer and concurrent readers (specification SpecThreads).          *)
(***************************************************************************)
EntryFields == {"timestamp", "text", "emotion", "confidence", "sentiment_score"}

Prefix(log, k) == SubSeq(log, 1, k)

\* What the query of the frame returns on the log.
ResultOn(frame, log) ==
  IF frame.op = "get_entries_by_date_range"
  THEN get_entries_by_date_range(log, frame.clock, frame.days_back)
  ELSE IF frame.op = "get_statistics"
  THEN get_statistics(log, frame.clock, frame.days_back)
  ELSE get_recent_streaks(log)

\* C22: with one thread in add_entry and others in get_entries_by_date_range,
\* get_statistics or get_recent_streaks, every entry of the log has its five
\* fields, and what a reader returns is what its query returns on a prefix of
\* the log, entries in insertion order.
C22_ReadersSeePrefix ==
  /\ \A i \in 1..Len(entries) : DOMAIN entries[i] = EntryFields
  /\ \A r \in DOMAIN readers :
        readers[r].pc = "returned" =>
           \E k \in 0..Len(entries) :
              readers[r].result = ResultOn(readers[r], Prefix(entries, k))

(***************************************************************************)
(* The sentence about the days (specification SpecPatterns).               *)
(***************************************************************************)
DaySentences == SelectSeq(ret, LAMBDA sentence : sentence.kind = "days")

\* Where the window first has an entry of the weekday.
FirstEntryOn(window, day) ==
  CHOOSE i \in 1..Len(window) :
     /\ day_name(window[i].timestamp) = day
     /\ \A j \in 1..(i - 1) : day_name(window[j].timestamp) # day

\* C23: when the window holds an entry, get_insights has one sentence about
\* the days; it lists the weekdays that hold an in-window entry, all of them
\* whatever their number of entries, each once, in the order in which the
\* window first shows them.
C23_DaysSentence ==
  (call.op = "get_insights" /\ Window(call.days_back) # <<>>) =>
     LET window == Window(call.days_back)
     IN  /\ Len(DaySentences) = 1
         /\ LET days == DaySentences[1].days
            IN  /\ {days[i] : i \in 1..Len(days)}
                     = {day_name(window[i].timestamp) : i \in 1..Len(window)}
                /\ \A i, j \in 1..Len(days) :
                      i < j => FirstEntryOn(window, days[i])
                                  < FirstEntryOn(window, days[j])

\* One entry on Sunday, then two on Saturday: Sunday is listed first.
C23_Witness ==
  /\ call.op = "get_insights"
  /\ LET window == Window(call.days_back)
     IN  /\ Len(window) = 3
         /\ day_name(window[1].timestamp) = "Sunday"
         /\ day_name(window[2].timestamp) = "Saturday"
         /\ day_name(window[3].timestamp) = "Saturday"
  /\ Len(DaySentences) = 1
  /\ DaySentences[1].days = <<"Sunday", "Saturday">>

(***************************************************************************)
(* The labels (specification Spec).                                        *)
(***************************************************************************)
EmotionLabels ==
  {"joy", "sadness", "anger", "fear", "surprise", "disgust", "anticipation",
   "trust", "love", "anxiety", "neutral"}

\* C24: the primary emotion is one of the 11 labels, and it is neutral
\* exactly when the text is empty or whitespace only, whether the label of a
\* non-blank text comes from the keywords or from the sentiment fallback.
C24_ClosedLabels ==
  pc = "done" =>
     /\ emotion_result.primary_emotion \in EmotionLabels
     /\ emotion_result.primary_emotion = "neutral" <=> AllWhitespace(user_input)

\* A text without keywords, sentiment 0.0 and a neutral share of 1.0: the
\* fallback answers trust.
C24_Witness ==
  /\ NoKeywordSignal
  /\ "classify_emotion_from_sentiment" \in called
  /\ emotion_result.sentiment_score = 0
  /\ estimator_output.vader.neu = 1000
  /\ emotion_result.primary_emotion = "trust"

(***************************************************************************)
(* Properties of the application (specification SpecApp).                  *)
(***************************************************************************)
\* C25: every entry the Analyze clicks have put into the log has a
\* confidence in [0.3, 0.95], an emotion of the 11 labels other than
\* neutral and a text that is not blank; a click with an empty or
\* whitespace-only text area appends nothing.
C25_LoggedEntries ==
  /\ [](\A i \in 1..Len(entries) :
           /\ entries[i].confidence >= 300
           /\ entries[i].confidence <= 950
           /\ entries[i].emotion \in EmotionLabels \ {"neutral"}
           /\ ~AllWhitespace(entries[i].text))
  /\ [][AllWhitespace(user_input') => entries' = entries]_vars

\* A blank click after two entries, one of them at the upper clamp and one
\* with whitespace around its text.
C25_Witness ==
  /\ AllWhitespace(user_input)
  /\ Len(entries) = 2
  /\ \E i \in 1..Len(entries) : entries[i].confidence = 950
  /\ \E i \in 1..Len(entries) : entries[i].text = <<" ","s","a","d","\n">>

\* C26: chat_history and the log have the same length and, index by index,
\* the same text, emotion and confidence; a click on a text that is not
\* blank appends one record to each, a click on a blank text changes neither.
C26_ChatMirrorsLog ==
  /\ [](/\ Len(chat_history) = Len(entries)
        /\ \A i \in 1..Len(entries) :
              /\ chat_history[i].text = entries[i].text
              /\ chat_history[i].emotion = entries[i].emotion
              /\ chat_history[i].confidence = entries[i].confidence)
  /\ [][IF AllWhitespace(user_input')
        THEN entries' = entries /\ chat_history' = chat_history
        ELSE /\ Len(entries') = Len(entries) + 1
             /\ SubSeq(entries', 1, Len(entries)) = entries
             /\ Len(chat_history') = Len(chat_history) + 1
             /\ SubSeq(chat_history', 1, Len(chat_history)) = chat_history]_vars

\* Two records each, the second pair with different clock readings and a
\* text with whitespace around it.
C26_Witness ==
  /\ Len(entries) = 2
  /\ Len(chat_history) = 2
  /\ chat_history[2].timestamp > entries[2].timestamp
  /\ chat_history[2].text = <<" ","s","a","d","\n">>
  /\ entries[1].emotion # entries[2].emotion

(***************************************************************************)
(* The snapshot of get_statistics (specification SpecTracker).             *)
(***************************************************************************)
\* The sum of the counts of a dict of counts.
RECURSIVE CountSum(_)
CountSum(counts) ==
  IF counts = <<>> THEN 0 ELSE Head(counts).count + CountSum(Tail(counts))

\* C27: in the snapshot of get_statistics, total_entries is the number of
\* entries in the window, the sum of the counts of emotion_distribution and
\* the sum of the counts of daily_counts; when it is above 0, the most common
\* emotion is a key of emotion_distribution with the maximal count.
C27_ConsistentSnapshot ==
  call.op = "get_statistics" =>
     /\ ret.total_entries = Cardinality(InWindow(call.days_back))
     /\ ret.total_entries = CountSum(ret.emotion_distribution)
     /\ ret.total_entries = CountSum(ret.daily_counts)
     /\ ret.total_entries > 0 =>
           \E i \in 1..Len(ret.emotion_distribution) :
              /\ ret.emotion_distribution[i].key = ret.most_common_emotion
              /\ \A j \in 1..Len(ret.emotion_distribution) :
                    ret.emotion_distribution[j].count
                       <= ret.emotion_distribution[i].count

\* Four entries on two days, one of the first emotion and three of the
\* second.
C27_Witness ==
  /\ call.op = "get_statistics"
  /\ ret.total_entries = 4
  /\ Len(ret.daily_counts) = 2
  /\ Len(ret.emotion_distribution) = 2
  /\ ret.emotion_distribution[1].count = 1
  /\ ret.most_common_emotion = ret.emotion_distribution[2].key

(***************************************************************************)
(* The window of a log in clock order (specification SpecTracker).         *)
(***************************************************************************)
\* The clock did not go back between the add_entry calls.
Chronological(log) ==
  \A i, j \in 1..Len(log) : i <= j => log[i].timestamp <= log[j].timestamp

\* s is the end of t.
IsSuffix(s, t) ==
  /\ Len(s) <= Len(t)
  /\ \A i \in 1..Len(s) : s[i] = t[Len(t) - Len(s) + i]

\* C28: when the timestamps of the log do not decrease in insertion order,
\* get_entries_by_date_range returns a contiguous suffix of the log; at one
\* instant the result for d1 is a suffix of the result for d2 when d1 <= d2;
\* and the first half of the result, as the trend splits it, is not later
\* than the second half.
C28_WindowIsSuffix ==
  (call.op = "get_entries_by_date_range" /\ Chronological(entries)) =>
     /\ IsSuffix(ret, entries)
     /\ \A d1, d2 \in DaysBack :
           d1 <= d2 => IsSuffix(get_entries_by_date_range(entries, now, d1),
                                get_entries_by_date_range(entries, now, d2))
     /\ LET mid_point == Len(ret) \div 2
        IN  \A i \in 1..mid_point : \A j \in (mid_point + 1)..Len(ret) :
               ret[i].timestamp <= ret[j].timestamp

\* A log of four entries on two days, in clock order; the window of the
\* second day is its last two entries, of different emotions.
C28_Witness ==
  /\ call.op = "get_entries_by_date_range"
  /\ Chronological(entries)
  /\ Len(entries) = 4
  /\ entries[1].timestamp < entries[4].timestamp
  /\ Len(ret) = 2
  /\ ret[1].emotion # ret[2].emotion
=============================================================================
